---- MODULE Spec2Model ----
(***************************************************************************)
(* Earlessly audio engine: the lookahead scheduler (MetronomeEngine) and   *)
(* the polyphonic voice manager (PolySynth) of src/utils/audioEngine.ts,   *)
(* with the Metronome component (src/components/Metronome.tsx): its tempo   *)
(* controls, grid generator, speed trainer and the effect that feeds the   *)
(* scheduler; the Tuner component's microphone session (start, stop,      *)
(* unmount, frame callbacks) and the pitch functions autoCorrelate and     *)
(* getNoteFromFrequency; the Keyboard component (src/components/           *)
(* Keyboard.tsx): key and pointer presses with chord assist, decay mode     *)
(* and transpose, and the chord quiz; the cell entry of the rhythm          *)
(* dictation trainer (src/unnamed/part_001).                               *)
(*                                                                         *)
(* Time is the audio clock in whole milliseconds.  The browser's timer     *)
(* table is part of the state: `timers` holds the pending re-poll timers,  *)
(* `callbacks` the pending per-step UI callbacks in firing order.          *)
(***************************************************************************)
EXTENDS Integers, Sequences, FiniteSets, TLC

\* ------------------------------------------------------------------ bounds
MaxTime == 150          \* the audio clock is explored up to this many ms
MaxRuns == 2            \* start() takes effect at most this many times
MaxSetterCalls == 2     \* setParams / setStepInterval calls explored
MaxVoices == 3          \* voices created by PolySynth.play
MaxDateNow == 2600      \* Date.now() is explored up to this many ms
MaxTrainerTime == 10000 \* the audio clock of the speed-trainer runs, in ms
MaxPlays == 1           \* presses of play in the speed-trainer runs
MaxBarsTime == 2000     \* the audio clock of the short-bar runs, in ms
MaxStarts == 2          \* clicks on the tuner's start button
MaxBufLen == 8          \* samples in the buffers analysed exhaustively
MaxPresses == 1         \* presses of keys of the on-screen keyboard
MaxTranspose == 1       \* semitones the keyboard is transposed upwards
MaxCells == 4           \* cells the user enters into one bar

\* ------------------------------------------------------- program constants
lookahead == 25
scheduleAheadTime == 100
MaxIterations == 100
StartDelay == 50
MinStepInterval == 1
DefaultBpm == 120

\* BeatIntensity (src/types.ts)
MUTE == 0
WEAK == 1
STRONG == 2
POLY_A == 3
POLY_B == 4
POLY_BOTH == 5
\* grid[beatNumber] for an index outside the array
Undefined == -1

\* timerID === undefined
NoTimer == 0

\* activeNotes.get(midi) === undefined
NoVoice == 0
\* rafId.current and sourceRef.current when null
NoFrame == 0
NoSource == 0

\* ------------------------------------------------------------ JS numbers
\* A JS number is a finite value, NaN or Infinity.
Num(v) == [k |-> "num", v |-> v]
NaN == [k |-> "nan", v |-> 0]
PosInfinity == [k |-> "inf", v |-> 1]
NegInfinity == [k |-> "inf", v |-> -1]
\* the finite positive number 440 * 2^(c / 1200), a pitch c cents from A4
Tone(c) == [k |-> "pow", v |-> 1, c |-> c]

\* Number.isFinite(x)
IsFinite(x) == x.k \in {"num", "pow"}

\* x > 0 (false for NaN)
IsPositive(x) == x.k # "nan" /\ x.v > 0

Max(a, b) == IF a >= b THEN a ELSE b

\* ------------------------------------------------------------ input sets
\* elapsed time between two events of the page, in ms
StallTime == 125
TimeSteps == {25, StallTime}

\* grids handed to setParams: a standard bar with one step cycled to MUTE,
\* and the grid of 2 against 3
Grids == { <<STRONG, MUTE, WEAK>>,
           <<POLY_BOTH, MUTE, POLY_B, POLY_A, POLY_B, MUTE>> }

\* tempo arguments handed to setParams / held by the component
BpmArgs == { Num(120), Num(300), Num(0), Num(-60), NaN, PosInfinity }

\* step intervals handed to setStepInterval, in ms
IntervalArgs == { 30 }

\* the same with the shortest interval, which setStepInterval clamps
BurstIntervalArgs == { 0, 30 }

\* what the Metronome component derives the step interval from
EffectConfigs ==
  { [mode |-> "STANDARD", subdivision |-> 2, polyA |-> 3, polyB |-> 4],
    [mode |-> "POLYRHYTHM", subdivision |-> 1, polyA |-> 3, polyB |-> 4] }

\* the component's tempo limits, its picker ranges and its initial pickers
MinBpm == 20
MaxBpm == 300
SliderMin == 30
SliderMax == 250
MaxNumerator == 16
Subdivisions == { 1, 2, 4 }
MaxPoly == 12
DefaultPickers ==
  [mode |-> "STANDARD", numerator |-> 4, subdivision |-> 1,
   polyA |-> 3, polyB |-> 4]

\* ms between two taps on the tap-tempo button: too fast to count, the
\* slowest that counts, and a pause that restarts the series
TapGaps == { 150, 2000, 2500 }
TapResetGap == 2000
MaxTapTimes == 5

\* positions of the tempo slider: its two ends and one in between
SliderArgs == { SliderMin, 100, SliderMax }

\* the clock step of the speed-trainer runs, in ms: the page polls late
\* but never so late that a step is due before it is scheduled
TrainerClockStep == 100

\* the tempo the speed-trainer runs start from
TrainerStartBpms == { 100 }

\* bars chosen on the numerator picker in the short-bar runs, and their tempo
BarBeats == { 1, 2 }
BarBpms == { SliderMax }
Modes == { "STANDARD", "POLYRHYTHM" }

\* values of trainerSettings.increment, which its buttons keep in 1..20
TrainerIncrements == { 1, 5, 20 }

\* tempi tried with every polyrhythm
PolyBpms == { 20, 100, 120, 300 }

\* samples of the analysed buffers in thousandths: full scale, silence, and
\* a hum of 0.003, below the noise floor
Samples == { -1000, 0, 3 }
SampleRates == { 44100, 48000 }
\* every buffer up to MaxBufLen samples, periodic buffers long enough for
\* several lags, and buffers of 63 samples that are silent but for a hum on
\* up to two of the first six samples and a full-scale last sample (which
\* the sums over the lags do not reach)
Buffers ==
  UNION { [1..n -> Samples] : n \in 0..MaxBufLen }
  \cup
  UNION { { [i \in 1..n |-> w[((i - 1) % q) + 1]] : w \in [1..q -> Samples] } :
            q \in {3, 4}, n \in {12, 13} }
  \cup
  { [i \in 1..63 |-> IF i = 63 THEN -1000 ELSE IF i \in h THEN 3 ELSE 0] :
      h \in { x \in SUBSET (1..6) : Cardinality(x) <= 2 } }

\* frequencies looked up: the numbers that are not a positive finite value,
\* pitches around every semitone from 96 below to 60 above A4 (exactly on
\* it, one cent below, and half a semitone either way), and the smallest
\* and the largest positive double
Frequencies ==
  { NaN, PosInfinity, NegInfinity, Num(0), Num(-1), Num(-440) }
  \cup { Tone(100 * k + d) : k \in -96..60, d \in {-50, -1, 0, 49} }
  \cup { Tone(-1299337), Tone(1218262) }
\* the sign of the rounding error of the computed note number
Roundings == { -1, 0, 1 }
\* MIDI pitches
MidiPitches == 0..127

\* pitches played on the synth
Midis == { 60, 64 }

\* a key without a chordType
NoChord == ""
\* the keys of KEY_BINDINGS pressed on the computer keyboard: a minor and
\* a diminished white key
KeyBindings ==
  { [keyBind |-> "c", offset |-> 4, chordType |-> "m"],
    [keyBind |-> "m", offset |-> 11, chordType |-> "d"] }
\* the key of PIANO_KEYS pressed with the pointer, a major white key; its
\* name is offset.toString()
PianoKeys ==
  { [keyBind |-> "0", offset |-> 0, chordType |-> "M"] }
KeyNames == { k.keyBind : k \in KeyBindings \cup PianoKeys }
\* a key that was never pressed
NoPress ==
  [down |-> FALSE, voices |-> {}, steady |-> TRUE, latchOff |-> TRUE,
   released |-> FALSE]
\* every pitch these keys can sound or stop
KeyMidis == 60..(60 + 11 + 7 + MaxTranspose)

VARIABLES
  \* MetronomeEngine fields
  isPlaying, nextNoteTime, timerID, currentStep, bpm, grid, stepInterval,
  \* AudioContext.currentTime (ms) and the browser's timer table
  currentTime, timers, callbacks,
  \* history: steps scheduled since start(), grid unchanged since start(),
  \* the last scheduler run, the last onStep delivery, the last operation
  schedCount, gridFixed, tickInfo, lastOnStep, runs, setterCalls, mop,
  \* PolySynth fields: the voice map and the envelope flag
  activeNotes, decayMode,
  \* every voice object created so far, the pending safety timeouts, and
  \* the last synth operation
  voices, safetyTimers, sop,
  \* Metronome component: useState values, prevStepRef, tapTimesRef, Date.now()
  uiBpm, uiIsPlaying, trainerSettings, currentStepIndex, prevStepRef,
  tapTimes, dateNow,
  \* history: wraps of the displayed step since play was pressed, the tempo
  \* at that moment, whether the trainer has been left alone since, and the
  \* last component operation
  wraps, startBpm, steady, uop,
  \* Metronome component: mode, numerator, subdivision, polyA and polyB as
  \* one record, the grid state, and the step time last handed to
  \* setStepInterval as an exact fraction of a second
  pickers, uiGrid, stepOut,
  \* Tuner component: the isListening, tunerData, micVolume and error states,
  \* isListeningRef, rafId and sourceRef
  isListening, tunerData, micVolume, error, isListeningRef, rafId, sourceRef,
  \* the browser around the tuner: whether the component is mounted, the
  \* startTuner calls suspended at an await, every MediaStream handed out so
  \* far (TRUE while its tracks are live), the frame requests not yet run
  mounted, pendingMedia, streams, frames,
  \* history: start clicks so far, the last stopTuner() that returned with
  \* nothing pending, whether the last user action was a stop, the last
  \* tuner operation
  starts, quiet, lastStop, top,
  \* pitch detection: the sample buffer (thousandths of full scale), the
  \* sample rate, a frequency, and the last result computed from them
  buf, sampleRate, frequency, pop,
  \* RhythmTraining: the cells the user has entered (ids of RHYTHM_CELLS),
  \* the difficulty, and the last operation on them
  userCells, difficulty, rop,
  \* Keyboard component: useState values
  transpose, activeKeys, isSmartChord, isSustain, isDecayMode,
  currentChordName, correctChordNotes,
  \* history: for every key the voices its last press started and what has
  \* happened to the controls since, the presses so far, the last operation
  presses, keyPresses, kop

engineVars == <<isPlaying, nextNoteTime, timerID, currentStep, bpm, grid,
                stepInterval>>
metroVars == <<isPlaying, nextNoteTime, timerID, currentStep, bpm, grid,
               stepInterval, currentTime, timers, callbacks,
               schedCount, gridFixed, tickInfo, lastOnStep, runs,
               setterCalls, mop>>

synthVars == <<activeNotes, decayMode, voices, safetyTimers, sop>>

uiVars == <<uiBpm, uiIsPlaying, trainerSettings, currentStepIndex,
            prevStepRef, tapTimes, dateNow, wraps, startBpm, steady, uop>>

pureVars == <<pickers, uiGrid, stepOut>>

tunerVars == <<isListening, tunerData, micVolume, error, isListeningRef,
               rafId, sourceRef, mounted, pendingMedia, streams, frames,
               starts, quiet, lastStop, top>>

pitchVars == <<buf, sampleRate, frequency, pop>>

rhythmVars == <<userCells, difficulty, rop>>

keyVars == <<transpose, activeKeys, isSmartChord, isSustain, isDecayMode,
             currentChordName, correctChordNotes, presses, keyPresses,
             kop>>

playVars == <<rhythmVars, keyVars>>

micVars == <<tunerVars, pitchVars, playVars>>

vars == <<metroVars, synthVars, uiVars, pureVars, micVars>>

\* The engine and its environment as one value, so that a handler that
\* calls several methods is the composition of their effects.
Eng == [isPlaying |-> isPlaying, nextNoteTime |-> nextNoteTime,
        timerID |-> timerID, currentStep |-> currentStep, bpm |-> bpm,
        grid |-> grid, stepInterval |-> stepInterval,
        timers |-> timers, callbacks |-> callbacks,
        schedCount |-> schedCount, gridFixed |-> gridFixed,
        tickInfo |-> tickInfo, runs |-> runs]

Commit(s) ==
  /\ isPlaying' = s.isPlaying
  /\ nextNoteTime' = s.nextNoteTime
  /\ timerID' = s.timerID
  /\ currentStep' = s.currentStep
  /\ bpm' = s.bpm
  /\ grid' = s.grid
  /\ stepInterval' = s.stepInterval
  /\ timers' = s.timers
  /\ callbacks' = s.callbacks
  /\ schedCount' = s.schedCount
  /\ gridFixed' = s.gridFixed
  /\ tickInfo' = s.tickInfo
  /\ runs' = s.runs

\* ------------------------------------------------------- browser timers
\* window.setTimeout returns an id that no pending timer and no held
\* handle uses.
NewTimerId(s) ==
  CHOOSE i \in 1..(Cardinality(s.timers) + 2) :
    i # s.timerID /\ \A t \in s.timers : t.id # i

\* setTimeout(cb, delay): callbacks fire in order of their due time, and in
\* order of registration among equal due times.
InsertTimer(q, e) ==
  LET before == Cardinality({i \in DOMAIN q : q[i].at <= e.at})
  IN SubSeq(q, 1, before) \o <<e>> \o SubSeq(q, before + 1, Len(q))

\* ----------------------------------------------------- MetronomeEngine
\* the oscillator frequencies of one click
ClickFreqs(intensity) ==
  CASE intensity = STRONG -> <<1500>>
    [] intensity = WEAK -> <<800>>
    [] intensity = POLY_A -> <<600>>
    [] intensity = POLY_B -> <<1200>>
    [] intensity = POLY_BOTH -> <<600, 1200>>
    [] OTHER -> <<800>>

GridAt(g, i) == IF (i + 1) \in DOMAIN g THEN g[i + 1] ELSE Undefined

\* scheduleNote() with the MUTE test ahead of the setTimeout
ScheduleNoteMuteFirst(s, beatNumber, time) ==
  LET now == currentTime
      schedTime == Max(now, time)
      drawTime == schedTime - now
      intensity == GridAt(s.grid, beatNumber)
      freqs == IF intensity = MUTE \/ ~s.isPlaying THEN <<>>
               ELSE ClickFreqs(intensity)
      cb == [step |-> beatNumber, at |-> now + Max(0, drawTime),
             stale |-> FALSE]
      note == [step |-> beatNumber, freqs |-> freqs,
               intensity |-> intensity, glen |-> Len(s.grid),
               k |-> s.schedCount, fixed |-> s.gridFixed]
  IN [s EXCEPT !.callbacks = IF intensity = MUTE THEN @
                             ELSE InsertTimer(@, cb),
               !.schedCount = @ + 1,
               !.tickInfo.notes = Append(@, note)]

\* Each call enqueues the UI callback (due at schedTime) and creates the
\* click's oscillators; tickInfo.notes records what the call did.
ScheduleNote(s, beatNumber, time) ==
  LET now == currentTime
      schedTime == Max(now, time)
      drawTime == schedTime - now
      intensity == GridAt(s.grid, beatNumber)
      freqs == IF intensity = MUTE \/ ~s.isPlaying THEN <<>>
               ELSE ClickFreqs(intensity)
      cb == [step |-> beatNumber, at |-> now + Max(0, drawTime),
             stale |-> FALSE]
      note == [step |-> beatNumber, freqs |-> freqs,
               intensity |-> intensity, glen |-> Len(s.grid),
               k |-> s.schedCount, fixed |-> s.gridFixed]
  IN [s EXCEPT !.callbacks = InsertTimer(@, cb),
               !.schedCount = @ + 1,
               !.tickInfo.notes = Append(@, note)]

\* nextNote() with the wrap test off by one
NextNoteLateWrap(s) ==
  [s EXCEPT !.nextNoteTime = @ + s.stepInterval,
            !.currentStep = IF @ + 1 > Len(s.grid) THEN 0 ELSE @ + 1]

NextNote(s) ==
  [s EXCEPT !.nextNoteTime = @ + s.stepInterval,
            !.currentStep = IF @ + 1 >= Len(s.grid) THEN 0 ELSE @ + 1]

RECURSIVE SchedulerLoop(_, _)
SchedulerLoop(s, iterations) ==
  IF s.nextNoteTime < currentTime + scheduleAheadTime
     /\ iterations < MaxIterations
  THEN SchedulerLoop(NextNote(ScheduleNote(s, s.currentStep, s.nextNoteTime)),
                     iterations + 1)
  ELSE [s EXCEPT !.tickInfo.iterations = iterations]

\* a scheduler that schedules one note per tick instead of looping
SchedulerOneNote(s) ==
  IF ~s.isPlaying THEN s
  ELSE LET behind == s.nextNoteTime < currentTime
           s1 == [s EXCEPT !.nextNoteTime = IF behind THEN currentTime ELSE @,
                           !.tickInfo = [iterations |-> 0,
                                         resynced |-> behind,
                                         notes |-> <<>>]]
           s2 == IF s1.nextNoteTime < currentTime + scheduleAheadTime
                 THEN [NextNote(ScheduleNote(s1, s1.currentStep,
                                             s1.nextNoteTime))
                         EXCEPT !.tickInfo.iterations = 1]
                 ELSE s1
           id == NewTimerId(s2)
       IN [s2 EXCEPT !.timerID = id,
                     !.timers = @ \cup {[id |-> id,
                                         due |-> currentTime + lookahead]}]

Scheduler(s) ==
  IF ~s.isPlaying THEN s
  ELSE LET behind == s.nextNoteTime < currentTime
           s1 == [s EXCEPT !.nextNoteTime = IF behind THEN currentTime ELSE @,
                           !.tickInfo = [iterations |-> 0,
                                         resynced |-> behind,
                                         notes |-> <<>>]]
           s2 == SchedulerLoop(s1, 0)
           id == NewTimerId(s2)
       IN [s2 EXCEPT !.timerID = id,
                     !.timers = @ \cup {[id |-> id,
                                         due |-> currentTime + lookahead]}]

\* start() without the isPlaying guard
EngineStartNoGuard(s) ==
  Scheduler([s EXCEPT !.isPlaying = TRUE,
                      !.currentStep = 0,
                      !.nextNoteTime = currentTime + StartDelay,
                      !.schedCount = 0,
                      !.runs = @ + 1,
                      !.gridFixed = TRUE])

EngineStart(s) ==
  IF s.isPlaying THEN s
  ELSE Scheduler([s EXCEPT !.isPlaying = TRUE,
                           !.currentStep = 0,
                           !.nextNoteTime = currentTime + StartDelay,
                           !.schedCount = 0,
                           !.runs = @ + 1,
                           !.gridFixed = TRUE])

\* stop() without the clearTimeout
EngineStopKeepTimer(s) ==
  [s EXCEPT !.isPlaying = FALSE,
            !.callbacks = [i \in DOMAIN @ |-> [@[i] EXCEPT !.stale = TRUE]],
            !.timerID = NoTimer]

\* stop() does not touch the step callbacks; `stale` records, for each
\* callback still pending, that a stop() has returned since it was scheduled.
EngineStop(s) ==
  LET s1 == [s EXCEPT !.isPlaying = FALSE,
                      !.callbacks = [i \in DOMAIN @ |->
                                       [@[i] EXCEPT !.stale = TRUE]]]
  IN IF s.timerID # NoTimer
     THEN [s1 EXCEPT !.timers = {t \in @ : t.id # s.timerID},
                     !.timerID = NoTimer]
     ELSE s1

SetParams(s, b, g) ==
  [s EXCEPT !.bpm = b, !.grid = g,
            !.gridFixed = @ /\ (g = s.grid)]

SetStepInterval(s, ms) ==
  [s EXCEPT !.stepInterval = Max(MinStepInterval, ms)]


\* ------------------------------------- Metronome component, engine effect
RECURSIVE gcd(_, _)
gcd(a, b) == IF b = 0 THEN a ELSE gcd(b, a % b)

lcm(a, b) == IF a = 0 \/ b = 0 THEN 0 ELSE (a * b) \div gcd(a, b)

\* the substitution without the Number.isFinite test
SafeBpmPositiveOnly(b) == IF IsPositive(b) THEN b ELSE Num(DefaultBpm)

\* const safeBpm = Number.isFinite(bpm) && bpm > 0 ? bpm : 120
SafeBpm(b) == IF IsFinite(b) /\ IsPositive(b) THEN b ELSE Num(DefaultBpm)

\* the step time without the division by the subdivision
StepSecondsPerBeat(safeBpm, cfg) ==
  IF cfg.mode = "STANDARD"
  THEN [num |-> 60, den |-> safeBpm.v]
  ELSE LET totalSteps == lcm(cfg.polyA, cfg.polyB)
       IN IF totalSteps > 0
          THEN [num |-> 60 * cfg.polyB, den |-> safeBpm.v * totalSteps]
          ELSE [num |-> 1, den |-> 2]

\* the step time with the cycle spread over polyA beats
StepSecondsOverA(safeBpm, cfg) ==
  IF cfg.mode = "STANDARD"
  THEN [num |-> 60, den |-> safeBpm.v * cfg.subdivision]
  ELSE LET totalSteps == lcm(cfg.polyA, cfg.polyB)
       IN IF totalSteps > 0
          THEN [num |-> 60 * cfg.polyA, den |-> safeBpm.v * totalSteps]
          ELSE [num |-> 1, den |-> 2]

\* stepTime of the effect in seconds, as the exact fraction num/den:
\* (60.0 / safeBpm) / subdivision, (60.0 / safeBpm * polyB) / totalSteps,
\* or the initial 0.5
StepSeconds(safeBpm, cfg) ==
  IF cfg.mode = "STANDARD"
  THEN [num |-> 60, den |-> safeBpm.v * cfg.subdivision]
  ELSE LET totalSteps == lcm(cfg.polyA, cfg.polyB)
       IN IF totalSteps > 0
          THEN [num |-> 60 * cfg.polyB, den |-> safeBpm.v * totalSteps]
          ELSE [num |-> 1, den |-> 2]

\* the step time as the component's record of what it handed over
Handed(f) == [set |-> TRUE, num |-> f.num, den |-> f.den]

\* stepTime of the effect, in whole ms
StepTime(safeBpm, cfg) ==
  LET f == StepSeconds(safeBpm, cfg)
  IN (1000 * f.num) \div f.den

\* an effect that restarts the engine whenever it runs while playing
EngineEffectRestart(s, b, g, playing, cfg) ==
  LET safeBpm == SafeBpm(b)
      s1 == SetStepInterval(s, StepTime(safeBpm, cfg))
      s2 == SetParams(s1, safeBpm, g)
  IN IF playing THEN EngineStart(EngineStop(s2)) ELSE EngineStop(s2)

\* the effect on [bpm, grid, isPlaying, subdivision, mode, polyA, polyB]
EngineEffect(s, b, g, playing, cfg) ==
  LET safeBpm == SafeBpm(b)
      s1 == SetStepInterval(s, StepTime(safeBpm, cfg))
      s2 == SetParams(s1, safeBpm, g)
  IN IF playing THEN EngineStart(s2) ELSE EngineStop(s2)

\* --------------------------------------- Metronome component, tempo
Min(a, b) == IF a < b THEN a ELSE b

\* the -1 button: setBpm(b => Math.max(20, b - 1))
BpmDown(b) == Max(MinBpm, b - 1)

\* the +1 button: setBpm(b => Math.min(300, b + 1))
BpmUp(b) == Min(MaxBpm, b + 1)

\* the trainer's tempo updater without the Math.min
BumpBpmUnclamped(current, increment) == current + increment

\* the trainer's tempo updater: current => Math.min(300, current + increment)
BumpBpm(current, increment) == Min(MaxBpm, current + increment)

\* sumDiffs of handleTap: the sum of times[i] - times[i-1] for i = 2..n
RECURSIVE SumDiffs(_, _)
SumDiffs(times, n) ==
  IF n < 2 THEN 0 ELSE SumDiffs(times, n - 1) + (times[n] - times[n - 1])

\* Math.round(60000 / avgDiff) with avgDiff = sumDiffs / (length - 1);
\* Infinity when all taps fell in the same millisecond
TapBpm(times) ==
  LET n == Len(times) - 1
      sumDiffs == SumDiffs(times, Len(times))
  IN IF sumDiffs = 0 THEN PosInfinity
     ELSE Num((2 * 60000 * n + sumDiffs) \div (2 * sumDiffs))

\* handleTap at time now: the new tapTimesRef.current and the new tempo
HandleTap(times, now, b) ==
  IF Len(times) > 0 /\ now - times[Len(times)] > TapResetGap
  THEN [times |-> <<now>>, bpm |-> b]
  ELSE LET pushed == Append(times, now)
           kept == IF Len(pushed) > MaxTapTimes THEN Tail(pushed) ELSE pushed
           newBpm == TapBpm(kept)
       IN [times |-> kept,
           bpm |-> IF Len(kept) > 1 /\ IsFinite(newBpm)
                      /\ newBpm.v >= MinBpm /\ newBpm.v <= MaxBpm
                   THEN newBpm.v ELSE b]

\* ------------------------------- Metronome component, speed trainer
\* the updater that restarts the bar counter at 0
TrainerUpdaterFromZero(prev, b) ==
  LET nextCount == prev.currentBarTracker + 1
  IN IF nextCount > prev.barCount
     THEN [settings |-> [prev EXCEPT !.currentBarTracker = 0],
           bpm |-> BumpBpm(b, prev.increment)]
     ELSE [settings |-> [prev EXCEPT !.currentBarTracker = nextCount],
           bpm |-> b]

\* the updater handed to setTrainerSettings, with the setBpm it makes:
\* the new settings and the new tempo
TrainerUpdater(prev, b) ==
  LET nextCount == prev.currentBarTracker + 1
  IN IF nextCount > prev.barCount
     THEN [settings |-> [prev EXCEPT !.currentBarTracker = 1],
           bpm |-> BumpBpm(b, prev.increment)]
     ELSE [settings |-> [prev EXCEPT !.currentBarTracker = nextCount],
           bpm |-> b]

\* the trainer effect without the wasZero test
TrainerEffectNoWasZero(prevRef, idx, playing, ts, b) ==
  LET r == IF idx # 0 THEN [settings |-> ts, bpm |-> b]
           ELSE IF ~playing \/ ~ts.enabled THEN [settings |-> ts, bpm |-> b]
           ELSE TrainerUpdater(ts, b)
  IN [prevStepRef |-> idx, settings |-> r.settings, bpm |-> r.bpm]

\* the effect on [currentStepIndex, isPlaying, trainerSettings.enabled]:
\* prevStepRef, the settings and the tempo after it
TrainerEffect(prevRef, idx, playing, ts, b) ==
  LET wasZero == prevRef = 0
      r == IF wasZero \/ idx # 0 THEN [settings |-> ts, bpm |-> b]
           ELSE IF ~playing \/ ~ts.enabled THEN [settings |-> ts, bpm |-> b]
           ELSE TrainerUpdater(ts, b)
  IN [prevStepRef |-> idx, settings |-> r.settings, bpm |-> r.bpm]

\* ----------------------------------- Metronome component, grid effect
\* a standard grid that marks every step after the first as a beat
StandardGridAllBeats(numerator, subdivision) ==
  LET totalSteps == numerator * subdivision
  IN [k \in 1..totalSteps |-> IF k - 1 = 0 THEN STRONG ELSE WEAK]

\* the STANDARD branch: index i of the array is element i + 1
StandardGrid(numerator, subdivision) ==
  LET totalSteps == numerator * subdivision
  IN [k \in 1..totalSteps |->
        IF k - 1 = 0 THEN STRONG
        ELSE IF (k - 1) % subdivision = 0 THEN WEAK
        ELSE MUTE]

\* a polyrhythm grid that tests rhythm A against stepsA, not totalSteps/stepsA
PolyGridHitEveryStepsA(pA, pB) ==
  LET stepsA == Max(1, pA)
      stepsB == Max(1, pB)
      totalSteps == lcm(stepsA, stepsB)
      stepIntervalB == totalSteps \div stepsB
  IN [k \in 1..totalSteps |->
        LET hitA == (k - 1) % stepsA = 0
            hitB == (k - 1) % stepIntervalB = 0
        IN IF hitA /\ hitB THEN POLY_BOTH
           ELSE IF hitA THEN POLY_A
           ELSE IF hitB THEN POLY_B
           ELSE MUTE]

\* a polyrhythm grid that tags a coincidence as rhythm B alone
PolyGridBothAsB(pA, pB) ==
  LET stepsA == Max(1, pA)
      stepsB == Max(1, pB)
      totalSteps == lcm(stepsA, stepsB)
      stepIntervalA == totalSteps \div stepsA
      stepIntervalB == totalSteps \div stepsB
  IN [k \in 1..totalSteps |->
        LET hitA == (k - 1) % stepIntervalA = 0
            hitB == (k - 1) % stepIntervalB = 0
        IN IF hitB THEN POLY_B
           ELSE IF hitA THEN POLY_A
           ELSE MUTE]

\* the POLYRHYTHM branch when totalSteps is not 0
PolyGrid(pA, pB) ==
  LET stepsA == Max(1, pA)
      stepsB == Max(1, pB)
      totalSteps == lcm(stepsA, stepsB)
      stepIntervalA == totalSteps \div stepsA
      stepIntervalB == totalSteps \div stepsB
  IN [k \in 1..totalSteps |->
        LET hitA == (k - 1) % stepIntervalA = 0
            hitB == (k - 1) % stepIntervalB = 0
        IN IF hitA /\ hitB THEN POLY_BOTH
           ELSE IF hitA THEN POLY_A
           ELSE IF hitB THEN POLY_B
           ELSE MUTE]

\* the effect on [mode, numerator, subdivision, polyA, polyB]: the value of
\* the grid state after it, old being the value before
GridEffectResult(old, cfg) ==
  IF cfg.mode = "STANDARD"
  THEN StandardGrid(cfg.numerator, cfg.subdivision)
  ELSE IF lcm(Max(1, cfg.polyA), Max(1, cfg.polyB)) = 0 THEN old
  ELSE PolyGrid(cfg.polyA, cfg.polyB)

\* ------------------------------------------------------------ PolySynth
Syn == [activeNotes |-> activeNotes, decayMode |-> decayMode,
        voices |-> voices, safetyTimers |-> safetyTimers]

SynCommit(s) ==
  /\ activeNotes' = s.activeNotes
  /\ decayMode' = s.decayMode
  /\ voices' = s.voices
  /\ safetyTimers' = s.safetyTimers

\* stop() that neither tests isStopped nor deletes the map entry
SynthStopNoGuard(s, midi, immediate) ==
  LET active == s.activeNotes[midi]
  IN IF active = NoVoice THEN s
     ELSE [s EXCEPT !.voices[active].isStopped = TRUE,
                    !.voices[active].fade =
                       IF immediate THEN "immediate" ELSE "release",
                    !.voices[active].oscStops = @ + 1]

\* stop(midi, immediate): isStopped, the fade constant and osc.stop() on the
\* voice object, then the map entry is deleted
SynthStop(s, midi, immediate) ==
  LET active == s.activeNotes[midi]
  IN IF active = NoVoice \/ s.voices[active].isStopped THEN s
     ELSE [s EXCEPT !.voices[active].isStopped = TRUE,
                    !.voices[active].fade =
                       IF immediate THEN "immediate" ELSE "release",
                    !.voices[active].oscStops = @ + 1,
                    !.activeNotes[midi] = NoVoice]

\* play() without the clean-up of the voice already sounding
SynthPlayNoCleanup(s, midi) ==
  LET noteObj == Len(s.voices) + 1
      s2 == [s EXCEPT !.voices = Append(@, [midi |-> midi,
                                            decay |-> s.decayMode,
                                            isStopped |-> FALSE,
                                            fade |-> "none",
                                            oscStops |-> 0]),
                      !.activeNotes[midi] = noteObj]
  IN IF s2.decayMode
     THEN [s2 EXCEPT !.safetyTimers = @ \cup {[midi |-> midi,
                                               noteObj |-> noteObj]}]
     ELSE s2

\* play() that arms the safety timeout in either envelope mode
SynthPlayAlwaysArm(s, midi) ==
  LET s1 == IF s.activeNotes[midi] # NoVoice
            THEN SynthStop(s, midi, TRUE) ELSE s
      noteObj == Len(s1.voices) + 1
  IN [s1 EXCEPT !.voices = Append(@, [midi |-> midi,
                                      decay |-> s1.decayMode,
                                      isStopped |-> FALSE,
                                      fade |-> "none",
                                      oscStops |-> 0]),
                !.activeNotes[midi] = noteObj,
                !.safetyTimers = @ \cup {[midi |-> midi,
                                          noteObj |-> noteObj]}]

\* play(midi): a new voice object replaces the pitch's entry; the safety
\* timeout is armed when decayMode is on
SynthPlay(s, midi) ==
  LET s1 == IF s.activeNotes[midi] # NoVoice
            THEN SynthStop(s, midi, TRUE) ELSE s
      noteObj == Len(s1.voices) + 1
      s2 == [s1 EXCEPT !.voices = Append(@, [midi |-> midi,
                                             decay |-> s1.decayMode,
                                             isStopped |-> FALSE,
                                             fade |-> "none",
                                             oscStops |-> 0]),
                       !.activeNotes[midi] = noteObj]
  IN IF s2.decayMode
     THEN [s2 EXCEPT !.safetyTimers = @ \cup {[midi |-> midi,
                                               noteObj |-> noteObj]}]
     ELSE s2

\* activeNotes.forEach((_, midi) => this.stop(midi, true))
RECURSIVE StopEach(_, _)
StopEach(s, keys) ==
  IF keys = {} THEN s
  ELSE LET midi == CHOOSE m \in keys : TRUE
       IN StopEach(SynthStop(s, midi, TRUE), keys \ {midi})

\* stopAll() that only clears the map
SynthStopAllClearOnly(s) ==
  [s EXCEPT !.activeNotes = [m \in Midis |-> NoVoice]]

\* stopAll(): stop every entry, then activeNotes.clear()
SynthStopAll(s) ==
  LET s1 == StopEach(s, {m \in Midis : s.activeNotes[m] # NoVoice})
  IN [s1 EXCEPT !.activeNotes = [m \in Midis |-> NoVoice]]

\* a safety timeout that looks at decayMode when it fires
SafetyTimeoutIfDecay(s, t) ==
  LET s1 == [s EXCEPT !.safetyTimers = @ \ {t}]
  IN IF s1.decayMode /\ s1.activeNotes[t.midi] = t.noteObj
     THEN SynthStop(s1, t.midi, TRUE) ELSE s1

\* a safety timeout that stops the oscillator of its own voice object
\* without consulting the map
SafetyTimeoutOwnVoice(s, t) ==
  [s EXCEPT !.safetyTimers = @ \ {t},
            !.voices[t.noteObj].isStopped = TRUE,
            !.voices[t.noteObj].fade = "immediate",
            !.voices[t.noteObj].oscStops = @ + 1,
            !.activeNotes[t.midi] = IF @ = t.noteObj THEN NoVoice ELSE @]

\* a safety timeout that stops whatever voice the pitch has by then
SafetyTimeoutAnyVoice(s, t) ==
  SynthStop([s EXCEPT !.safetyTimers = @ \ {t}], t.midi, TRUE)

\* the safety timeout of play(): stops the pitch only if the map still
\* holds the voice object the timer was armed for
SafetyTimeout(s, t) ==
  LET s1 == [s EXCEPT !.safetyTimers = @ \ {t}]
  IN IF s1.activeNotes[t.midi] = t.noteObj
     THEN SynthStop(s1, t.midi, TRUE) ELSE s1


\* ---------------------------------------------------------- autoCorrelate
\* Samples are whole thousandths of full scale, so that the sums the
\* function forms are exact: a correlation is kept as its numerator over
\* SampleScale * MAX_SAMPLES, a frequency as num / (lag + sn / sd).
SampleScale == 1000
NoPitch == [num |-> -1, lag |-> 1, sn |-> 0, sd |-> 1]
Quotient(n, d) == [num |-> n, lag |-> d, sn |-> 0, sd |-> 1]
Shifted(n, d, sn, sd) == [num |-> n, lag |-> d, sn |-> sn, sd |-> sd]

Abs(x) == IF x < 0 THEN -x ELSE x

RECURSIVE SumSquares(_)
SumSquares(b) ==
  IF b = <<>> THEN 0 ELSE Head(b) * Head(b) + SumSquares(Tail(b))

RmsBelowFloorZeroOnly(b) ==
  /\ Len(b) > 0
  /\ SumSquares(b) = 0

\* rms < 0.01; the rms of an empty buffer is NaN and compares false
RmsBelowFloor(b) ==
  /\ Len(b) > 0
  /\ SumSquares(b) < (SampleScale \div 100) * (SampleScale \div 100) * Len(b)

RECURSIVE SumAbsDiff(_, _, _)
SumAbsDiff(b, offset, n) ==
  IF n = 0 THEN 0
  ELSE Abs(b[n] - b[n + offset]) + SumAbsDiff(b, offset, n - 1)

\* 1 - sum / MAX_SAMPLES, times SampleScale * MAX_SAMPLES
Correlation(b, offset) ==
  LET M == Len(b) \div 2
  IN SampleScale * M - SumAbsDiff(b, offset, M)

\* correlation > x / 100
Exceeds(c, x, M) == 100 * c > x * SampleScale * M

\* the interpolation without the test of its denominator
RefineNoFlat(st, M, rate) ==
  LET best == st.bestOffset
      at(i) == IF i \in DOMAIN st.correlations THEN st.correlations[i] ELSE 0
      denom == 2 * at(best) - at(best + 1) - at(best - 1)
  IN [st EXCEPT !.done = TRUE, !.branch = "refined",
                !.value = Shifted(rate, best,
                                  at(best + 1) - at(best - 1), 2 * denom)]

\* the branch taken once a good correlation was found and the current one
\* is not both above 0.9 and rising
Refine(st, M, rate) ==
  LET best == st.bestOffset
      at(i) == IF i \in DOMAIN st.correlations THEN st.correlations[i] ELSE 0
      denom == 2 * at(best) - at(best + 1) - at(best - 1)
  IN IF 10 * Abs(denom) < M
     THEN [st EXCEPT !.done = TRUE, !.branch = "flat",
                     !.value = Quotient(rate, IF best = 0 THEN 1 ELSE best)]
     ELSE [st EXCEPT !.done = TRUE, !.branch = "refined",
                     !.value = Shifted(rate, best,
                                       at(best + 1) - at(best - 1), 2 * denom)]

\* one pass of the loop over the lags
AutoStep(b, M, rate, st, offset) ==
  LET c == Correlation(b, offset)
      s1 == [st EXCEPT !.correlations = [i \in DOMAIN @ \cup {offset} |->
                                           IF i = offset THEN c ELSE @[i]],
                       !.lags = @ + 1]
  IN IF Exceeds(c, 90, M) /\ c > st.last
     THEN LET s2 == [s1 EXCEPT !.found = TRUE, !.last = c]
          IN IF c > s2.bestCorrelation
             THEN [s2 EXCEPT !.bestCorrelation = c, !.bestOffset = offset]
             ELSE s2
     ELSE IF s1.found
     THEN Refine(s1, M, rate)
     ELSE [s1 EXCEPT !.last = c]

RECURSIVE AutoLoop(_, _, _, _, _)
AutoLoop(b, M, rate, st, offset) ==
  IF st.done \/ ~(offset < M - 1) THEN st
  ELSE AutoLoop(b, M, rate, AutoStep(b, M, rate, st, offset), offset + 1)

\* autoCorrelate(buf, sampleRate): the value returned, with the branch that
\* returned it, the lags evaluated and the best lag
autoCorrelate(b, rate) ==
  LET M == Len(b) \div 2
      st0 == [ done |-> FALSE, branch |-> "none", value |-> NoPitch,
               bestOffset |-> -1, bestCorrelation |-> 0, found |-> FALSE,
               last |-> SampleScale * M, correlations |-> << >>, lags |-> 0 ]
  IN IF RmsBelowFloor(b)
     THEN [st0 EXCEPT !.done = TRUE, !.branch = "gate"]
     ELSE LET st == AutoLoop(b, M, rate, st0, 2)
          IN IF st.done THEN st
             ELSE IF Exceeds(st.bestCorrelation, 1, M) /\ st.bestOffset > 0
             THEN [st EXCEPT !.done = TRUE, !.branch = "best",
                             !.value = Quotient(rate, st.bestOffset)]
             ELSE [st EXCEPT !.done = TRUE]

\* ------------------------------------------------- getNoteFromFrequency
NOTE_STRINGS ==
  << "C", "C#", "D", "D#", "E", "F", "F#", "G", "G#", "A", "A#", "B" >>

\* NOTE_STRINGS[i], undefined outside the array
NoteAt(i) == IF i \in 0..11 THEN NOTE_STRINGS[i + 1] ELSE "undefined"

\* the % of JS: the remainder has the sign of the dividend
JsRem(a, b) == IF a >= 0 THEN a % b ELSE -((-a) % b)

\* 440 * Math.pow(2, (midi - 69) / 12)
FreqOfMidi(midi) == Tone(100 * (midi - 69))

RoundMidiFloor(n100, r) ==
  IF r < 0 /\ n100 % 100 = 0 THEN n100 \div 100 - 1 ELSE n100 \div 100

\* Math.round(noteNum), noteNum being n100 / 100 off by a rounding error of
\* sign r: halves go up, and an error decides on an exact half
RoundMidi(n100, r) ==
  IF r < 0 /\ (n100 + 50) % 100 = 0
  THEN (n100 + 50) \div 100 - 1
  ELSE (n100 + 50) \div 100

\* Math.floor((noteNum - midi) * 100)
CentsOff(n100, midi, r) ==
  IF r < 0 THEN n100 - 100 * midi - 1 ELSE n100 - 100 * midi

NoteIndexSingleRem(midi) == JsRem(midi, 12)

\* ((midi % 12) + 12) % 12
NoteIndex(midi) == JsRem(JsRem(midi, 12) + 12, 12)

\* 12 * log2(frequency / 440) + 69, in hundredths
NoteNum100(f) == 6900 + f.c

SilentNoteNotFlagged ==
  [ note |-> "A", octave |-> 4, cents |-> 0, frequency |-> Tone(0),
    isSilent |-> FALSE ]

\* the result for a frequency that is no pitch
SilentNote ==
  [ note |-> "A", octave |-> 4, cents |-> 0, frequency |-> Tone(0),
    isSilent |-> TRUE ]

\* getNoteFromFrequency(frequency), r being the sign of the rounding error
\* of noteNum
getNoteFromFrequency(f, r) ==
  IF ~IsFinite(f) \/ ~IsPositive(f) THEN SilentNote
  ELSE LET midi == RoundMidi(NoteNum100(f), r)
       IN [ note |-> NoteAt(NoteIndex(midi)),
            octave |-> midi \div 12 - 1,
            cents |-> CentsOff(NoteNum100(f), midi, r),
            frequency |-> f, isSilent |-> FALSE ]

\* ------------------------------------------------------------- actions
MInit ==
  /\ isPlaying = FALSE
  /\ nextNoteTime = 0
  /\ timerID = NoTimer
  /\ currentStep = 0
  /\ bpm = Num(DefaultBpm)
  /\ grid = <<>>
  /\ stepInterval = 500
  /\ currentTime = 0
  /\ timers = {}
  /\ callbacks = <<>>
  /\ schedCount = 0
  /\ gridFixed = TRUE
  /\ tickInfo = [iterations |-> 0, resynced |-> FALSE, notes |-> <<>>]
  /\ lastOnStep = [step |-> -1, stale |-> FALSE]
  /\ runs = 0
  /\ setterCalls = 0
  /\ mop = [op |-> "new"]

SInit ==
  /\ activeNotes = [m \in Midis |-> NoVoice]
  /\ decayMode = TRUE
  /\ voices = <<>>
  /\ safetyTimers = {}
  /\ sop = [op |-> "new"]

\* the useState and useRef initial values of the Metronome component
UInitNoTempo ==
  /\ uiIsPlaying = FALSE
  /\ trainerSettings = [enabled |-> FALSE, barCount |-> 4, increment |-> 5,
                        currentBarTracker |-> 0]
  /\ currentStepIndex = -1
  /\ prevStepRef = -1
  /\ tapTimes = <<>>
  /\ dateNow = 0
  /\ wraps = 0
  /\ startBpm = DefaultBpm
  /\ steady = FALSE
  /\ uop = [op |-> "new"]

UInit == uiBpm = DefaultBpm /\ UInitNoTempo

PInit ==
  /\ pickers = DefaultPickers
  /\ uiGrid = <<>>
  /\ stepOut = [set |-> FALSE, num |-> 1, den |-> 2]

\* the useState and useRef initial values of the Tuner component, mounted
\* and with the microphone never asked for
TunerInit ==
  /\ isListening = FALSE
  /\ tunerData = "null"
  /\ micVolume = 0
  /\ error = FALSE
  /\ isListeningRef = FALSE
  /\ rafId = NoFrame
  /\ sourceRef = NoSource
  /\ mounted = TRUE
  /\ pendingMedia = {}
  /\ streams = <<>>
  /\ frames = {}
  /\ starts = 0
  /\ quiet = [on |-> FALSE, stream |-> NoSource, frame |-> NoFrame]
  /\ lastStop = FALSE
  /\ top = [op |-> "new", ran |-> FALSE]

\* no buffer captured and no frequency looked up yet
PitchInit ==
  /\ buf = <<>>
  /\ sampleRate = 44100
  /\ frequency = Tone(0)
  /\ pop = [op |-> "new"]

\* the useState initial values of RhythmTraining
RhythmInit ==
  /\ userCells = <<>>
  /\ difficulty = "easy"
  /\ rop = [op |-> "new"]

\* the useState initial values of the Keyboard component; the chord name is
\* kept as the two words the template string joins
KeyboardInit ==
  /\ transpose = 0
  /\ activeKeys = {}
  /\ isSmartChord = FALSE
  /\ isSustain = FALSE
  /\ isDecayMode = TRUE
  /\ currentChordName = [root |-> "", quality |-> ""]
  /\ correctChordNotes = <<>>
  /\ presses = [k \in KeyNames |-> NoPress]
  /\ keyPresses = 0
  /\ kop = [op |-> "new"]

PlayInit == RhythmInit /\ KeyboardInit

Init ==
  MInit /\ SInit /\ UInit /\ PInit /\ TunerInit /\ PitchInit /\ PlayInit

\* Some timer is due and has not fired yet.
Overdue ==
  \/ \E t \in timers : t.due <= currentTime
  \/ callbacks # <<>> /\ Head(callbacks).at <= currentTime

\* engine.start()
Start ==
  /\ isPlaying \/ runs < MaxRuns
  /\ Commit(EngineStart(Eng))
  /\ mop' = [op |-> "start", noop |-> isPlaying]
  /\ UNCHANGED <<currentTime, lastOnStep, setterCalls, synthVars, micVars, uiVars, pureVars>>

\* engine.stop()
Stop ==
  /\ Commit(EngineStop(Eng))
  /\ mop' = [op |-> "stop", noop |-> ~isPlaying]
  /\ UNCHANGED <<currentTime, lastOnStep, setterCalls, synthVars, micVars, uiVars, pureVars>>

SetParamsCall(bpms) ==
  \E b \in bpms, g \in Grids :
    /\ setterCalls < MaxSetterCalls
    /\ setterCalls' = setterCalls + 1
    /\ Commit(SetParams(Eng, b, g))
    /\ mop' = [op |-> "setParams", bpm |-> b]
    /\ UNCHANGED <<currentTime, lastOnStep, synthVars, micVars, uiVars, pureVars>>

SetStepIntervalCall(intervals) ==
  \E ms \in intervals :
    /\ setterCalls < MaxSetterCalls
    /\ setterCalls' = setterCalls + 1
    /\ Commit(SetStepInterval(Eng, ms))
    /\ mop' = [op |-> "setStepInterval"]
    /\ UNCHANGED <<currentTime, lastOnStep, synthVars, micVars, uiVars, pureVars>>

\* engine.setParams(bpm, grid) with the tempo the component holds
CallSetParams == SetParamsCall({Num(DefaultBpm)})

\* engine.setStepInterval(ms / 1000)
CallSetStepInterval == SetStepIntervalCall(IntervalArgs)

\* the re-poll timer fires: () => this.scheduler()
Tick ==
  \E t \in timers :
    /\ t.due <= currentTime
    /\ Commit(Scheduler([Eng EXCEPT !.timers = @ \ {t}]))
    /\ mop' = [op |-> "tick"]
    /\ UNCHANGED <<currentTime, lastOnStep, setterCalls, synthVars, micVars, uiVars, pureVars>>

\* a step callback fires: () => { if (this.isPlaying) this.onStep(beatNumber) }
StepCallback ==
  /\ callbacks # <<>>
  /\ Head(callbacks).at <= currentTime
  /\ callbacks' = Tail(callbacks)
  /\ lastOnStep' = IF isPlaying
                   THEN [step |-> Head(callbacks).step,
                         stale |-> Head(callbacks).stale]
                   ELSE lastOnStep
  /\ mop' = [op |-> "callback"]
  /\ UNCHANGED <<engineVars, currentTime, timers, schedCount, gridFixed,
                 tickInfo, runs, setterCalls, synthVars, micVars, uiVars, pureVars>>

\* the audio clock advances: by one clock step once the due timers have
\* fired, or by a stall of the page during which no timer fires
Advance ==
  \E dt \in TimeSteps :
    /\ currentTime + dt <= MaxTime
    /\ dt < StallTime => ~Overdue
    /\ currentTime' = currentTime + dt
    /\ mop' = [op |-> "advance"]
    /\ UNCHANGED <<engineVars, timers, callbacks, schedCount, gridFixed,
                   tickInfo, lastOnStep, runs, setterCalls, synthVars, micVars, uiVars, pureVars>>

MNext ==
  \/ Start
  \/ Stop
  \/ CallSetParams
  \/ CallSetStepInterval
  \/ Tick
  \/ StepCallback
  \/ Advance

\* The scheduler under start, stop, reconfiguration, timers and the clock.
SpecMetronome == Init /\ [][MNext]_vars

\* --- one run with step intervals down to the 1 ms minimum
\* engine.setStepInterval with intervals that the clamp raises; the page
\* runs its ready timers before it handles this call
BurstSetStepInterval == ~Overdue /\ SetStepIntervalCall(BurstIntervalArgs)

BurstSetParams == ~Overdue /\ CallSetParams

BurstStart == ~Overdue /\ Start

BNext ==
  \/ BurstStart
  \/ BurstSetParams
  \/ BurstSetStepInterval
  \/ Tick
  \/ StepCallback
  \/ Advance

SpecBurst == Init /\ [][BNext]_vars

\* --- the tempo path: the component's effect and direct setParams calls
\* the effect that hands the component's tempo and grid to the engine
ParamEffect ==
  \E b \in BpmArgs, g \in Grids, playing \in BOOLEAN, cfg \in EffectConfigs :
    /\ setterCalls < MaxSetterCalls
    /\ setterCalls' = setterCalls + 1
    /\ playing => (isPlaying \/ runs < MaxRuns)
    /\ Commit(EngineEffect(Eng, b, g, playing, cfg))
    /\ mop' = [op |-> "paramEffect", bpm |-> b, cfg |-> cfg]
    /\ UNCHANGED <<currentTime, lastOnStep, synthVars, micVars, uiVars, pureVars>>

\* engine.setParams(bpm, grid) called with any number
DirectSetParams == SetParamsCall(BpmArgs)

\* engine.setStepInterval(seconds) called on its own
DirectSetStepInterval == SetStepIntervalCall(IntervalArgs)

TNext ==
  \/ ParamEffect
  \/ DirectSetParams
  \/ DirectSetStepInterval
  \/ Tick
  \/ StepCallback
  \/ Advance

SpecTempo == Init /\ [][TNext]_vars

\* --- PolySynth
\* synth.play(midi)
Play ==
  \E midi \in Midis :
    /\ Len(voices) < MaxVoices
    /\ SynCommit(SynthPlay(Syn, midi))
    /\ sop' = [op |-> "play", midi |-> midi,
               replaced |-> activeNotes[midi]]
    /\ UNCHANGED <<metroVars, uiVars, micVars, pureVars>>

\* synth.stop(midi, immediate)
StopNote ==
  \E midi \in Midis, immediate \in BOOLEAN :
    /\ SynCommit(SynthStop(Syn, midi, immediate))
    /\ sop' = [op |-> "stop", midi |-> midi, had |-> activeNotes[midi]]
    /\ UNCHANGED <<metroVars, uiVars, micVars, pureVars>>

\* synth.stopAll()
StopAll ==
  /\ SynCommit(SynthStopAll(Syn))
  /\ sop' = [op |-> "stopAll",
             had |-> {activeNotes[m] : m \in Midis} \ {NoVoice}]
  /\ UNCHANGED <<metroVars, uiVars, micVars, pureVars>>

\* synth.decayMode = isDecayMode
SetDecayMode ==
  \E b \in BOOLEAN :
    /\ decayMode' = b
    /\ sop' = [op |-> "decayMode"]
    /\ UNCHANGED <<activeNotes, voices, safetyTimers, metroVars, uiVars, micVars,
                   pureVars>>

\* a safety timeout fires
SafetyTimer ==
  \E t \in safetyTimers :
    /\ SynCommit(SafetyTimeout(Syn, t))
    /\ sop' = [op |-> "timeout", midi |-> t.midi, noteObj |-> t.noteObj,
               stopped |-> (activeNotes[t.midi] = t.noteObj)]
    /\ UNCHANGED <<metroVars, uiVars, micVars, pureVars>>

SNext ==
  \/ Play
  \/ StopNote
  \/ StopAll
  \/ SetDecayMode
  \/ SafetyTimer

SpecSynth == Init /\ [][SNext]_vars

\* --- the grid effect and the step time for every picker value
\* every value the pickers and the tempo can be set to; steps of 1 are what
\* the generator's Math.max(1, .) admits
PickerValues ==
  { [DefaultPickers EXCEPT !.numerator = n, !.subdivision = d] :
      n \in 1..MaxNumerator, d \in Subdivisions }
  \cup
  { [DefaultPickers EXCEPT !.mode = "POLYRHYTHM", !.polyA = a, !.polyB = b] :
      a \in 1..MaxPoly, b \in 1..MaxPoly }

GInit ==
  /\ MInit /\ SInit /\ UInitNoTempo /\ TunerInit /\ PitchInit /\ PlayInit
  /\ uiGrid = <<>>
  /\ stepOut = [set |-> FALSE, num |-> 1, den |-> 2]
  /\ pickers \in PickerValues
  /\ uiBpm \in IF pickers.mode = "STANDARD" THEN MinBpm..MaxBpm ELSE PolyBpms

\* the effect on [mode, numerator, subdivision, polyA, polyB]
GridEffect ==
  /\ uiGrid' = GridEffectResult(uiGrid, pickers)
  /\ UNCHANGED <<metroVars, synthVars, micVars, uiVars, pickers, stepOut>>

\* the step time the engine effect computes and hands to setStepInterval
StepTimeEffect ==
  /\ stepOut' = Handed(StepSeconds(SafeBpm(Num(uiBpm)), pickers))
  /\ UNCHANGED <<metroVars, synthVars, micVars, uiVars, pickers, uiGrid>>

GNext ==
  \/ GridEffect
  \/ StepTimeEffect

SpecGrid == GInit /\ [][GNext]_vars

\* --- the Metronome component once mounted
\* after the mount effects: the engine exists, the grid effect has set the
\* default bar and the engine effect has handed it over and called stop()
CInit ==
  /\ isPlaying = FALSE
  /\ nextNoteTime = 0
  /\ timerID = NoTimer
  /\ currentStep = 0
  /\ bpm = Num(DefaultBpm)
  /\ grid = StandardGrid(DefaultPickers.numerator, DefaultPickers.subdivision)
  /\ stepInterval = StepTime(Num(DefaultBpm), DefaultPickers)
  /\ currentTime = 0
  /\ timers = {}
  /\ callbacks = <<>>
  /\ schedCount = 0
  /\ gridFixed = TRUE
  /\ tickInfo = [iterations |-> 0, resynced |-> FALSE, notes |-> <<>>]
  /\ lastOnStep = [step |-> -1, stale |-> FALSE]
  /\ runs = 0
  /\ setterCalls = 0
  /\ mop = [op |-> "effect"]
  /\ SInit /\ UInit /\ TunerInit /\ PitchInit /\ PlayInit
  /\ pickers = DefaultPickers
  /\ uiGrid = StandardGrid(DefaultPickers.numerator,
                           DefaultPickers.subdivision)
  /\ stepOut = Handed(StepSeconds(Num(DefaultBpm), DefaultPickers))

\* the effect on [bpm, grid, isPlaying, subdivision, mode, polyA, polyB],
\* run on engine state s after a handler when one of these has changed
EngineEffectOn(s) ==
  /\ IF <<uiBpm', uiGrid', uiIsPlaying', pickers'>>
          # <<uiBpm, uiGrid, uiIsPlaying, pickers>>
     THEN /\ Commit(EngineEffect(s, Num(uiBpm'), uiGrid', uiIsPlaying',
                                 pickers'))
          /\ stepOut' = Handed(StepSeconds(SafeBpm(Num(uiBpm')), pickers'))
          /\ mop' = [op |-> "effect"]
     ELSE /\ Commit(s)
          /\ UNCHANGED <<stepOut, mop>>
  /\ UNCHANGED setterCalls

EngineEffectAfter ==
  /\ EngineEffectOn(Eng)
  /\ UNCHANGED <<currentTime, lastOnStep>>

\* --- tempo controls of the stopped metronome
\* the -1 button
BpmMinus ==
  /\ uiBpm' = BpmDown(uiBpm)
  /\ uop' = [op |-> "minus"]
  /\ UNCHANGED <<uiIsPlaying, trainerSettings, currentStepIndex, prevStepRef,
                 tapTimes, dateNow, wraps, startBpm, steady>>
  /\ UNCHANGED <<pickers, uiGrid, synthVars, micVars>>
  /\ EngineEffectAfter

\* the +1 button
BpmPlus ==
  /\ uiBpm' = BpmUp(uiBpm)
  /\ uop' = [op |-> "plus"]
  /\ UNCHANGED <<uiIsPlaying, trainerSettings, currentStepIndex, prevStepRef,
                 tapTimes, dateNow, wraps, startBpm, steady>>
  /\ UNCHANGED <<pickers, uiGrid, synthVars, micVars>>
  /\ EngineEffectAfter

\* the range input: setBpm(parseInt(e.target.value))
Slider(values) ==
  \E v \in values :
    /\ uiBpm' = v
    /\ uop' = [op |-> "slider"]
    /\ UNCHANGED <<uiIsPlaying, trainerSettings, currentStepIndex,
                   prevStepRef, tapTimes, dateNow, wraps, startBpm, steady>>
    /\ UNCHANGED <<pickers, uiGrid, synthVars, micVars>>
    /\ EngineEffectAfter

Slide == Slider(SliderArgs)

\* the tap-tempo button, gap ms after the previous event of the page
Tap ==
  \E gap \in TapGaps :
    /\ dateNow + gap <= MaxDateNow
    /\ dateNow' = dateNow + gap
    /\ LET r == HandleTap(tapTimes, dateNow + gap, uiBpm)
       IN tapTimes' = r.times /\ uiBpm' = r.bpm
    /\ uop' = [op |-> "tap"]
    /\ UNCHANGED <<uiIsPlaying, trainerSettings, currentStepIndex,
                   prevStepRef, wraps, startBpm, steady>>
    /\ UNCHANGED <<pickers, uiGrid, synthVars, micVars>>
    /\ EngineEffectAfter

\* the speed trainer raises the tempo; here it may do so at any moment and
\* with any increment, which covers every moment at which it does
TrainerBump ==
  \E inc \in TrainerIncrements :
    /\ uiBpm' = BumpBpm(uiBpm, inc)
    /\ uop' = [op |-> "bump"]
    /\ UNCHANGED <<uiIsPlaying, trainerSettings, currentStepIndex,
                   prevStepRef, tapTimes, dateNow, wraps, startBpm, steady>>
    /\ UNCHANGED <<pickers, uiGrid, synthVars, micVars>>
    /\ EngineEffectAfter

KNext ==
  \/ BpmMinus
  \/ BpmPlus
  \/ Slide
  \/ Tap
  \/ TrainerBump

SpecBpm == CInit /\ [][KNext]_vars

\* --- the speed trainer on the running metronome
\* the play/stop button
TogglePlay ==
  /\ uiIsPlaying \/ runs < MaxPlays
  /\ uiIsPlaying' = ~uiIsPlaying
  /\ currentStepIndex' = -1
  /\ LET ts == IF uiIsPlaying THEN trainerSettings
               ELSE [trainerSettings EXCEPT !.currentBarTracker = 0]
         ref == IF uiIsPlaying THEN -1 ELSE prevStepRef
         r == TrainerEffect(ref, -1, ~uiIsPlaying, ts, uiBpm)
     IN /\ prevStepRef' = r.prevStepRef
        /\ trainerSettings' = r.settings
        /\ uiBpm' = r.bpm
  /\ wraps' = IF uiIsPlaying THEN wraps ELSE 0
  /\ startBpm' = IF uiIsPlaying THEN startBpm ELSE uiBpm
  /\ steady' = (~uiIsPlaying /\ trainerSettings.enabled /\ callbacks = <<>>)
  /\ uop' = [op |-> "togglePlay"]
  /\ UNCHANGED <<tapTimes, dateNow, pickers, uiGrid, synthVars, micVars>>
  /\ EngineEffectAfter

\* the switch of the speed trainer
ToggleTrainer ==
  /\ LET ts == [trainerSettings EXCEPT !.enabled = ~@]
         r == TrainerEffect(prevStepRef, currentStepIndex, uiIsPlaying, ts,
                            uiBpm)
     IN /\ prevStepRef' = r.prevStepRef
        /\ trainerSettings' = r.settings
        /\ uiBpm' = r.bpm
  /\ steady' = FALSE
  /\ uop' = [op |-> "toggleTrainer"]
  /\ UNCHANGED <<uiIsPlaying, currentStepIndex, tapTimes, dateNow, wraps,
                 startBpm, pickers, uiGrid, synthVars, micVars>>
  /\ EngineEffectAfter

\* the tempo is chosen on the slider before play is pressed
ChooseTempo == ~uiIsPlaying /\ runs = 0 /\ Slider(TrainerStartBpms)

\* a step callback fires and, while the engine plays, onStep sets
\* currentStepIndex; the trainer effect and the engine effect follow
OnStep ==
  /\ callbacks # <<>>
  /\ Head(callbacks).at <= currentTime
  /\ LET cb == Head(callbacks)
         idx == IF isPlaying THEN cb.step ELSE currentStepIndex
         r == IF idx # currentStepIndex
              THEN TrainerEffect(prevStepRef, idx, uiIsPlaying,
                                 trainerSettings, uiBpm)
              ELSE [prevStepRef |-> prevStepRef,
                    settings |-> trainerSettings, bpm |-> uiBpm]
     IN /\ currentStepIndex' = idx
        /\ prevStepRef' = r.prevStepRef
        /\ trainerSettings' = r.settings
        /\ uiBpm' = r.bpm
        /\ lastOnStep' = IF isPlaying
                         THEN [step |-> cb.step, stale |-> cb.stale]
                         ELSE lastOnStep
        /\ wraps' = IF isPlaying /\ cb.step = 0
                       /\ currentStepIndex = Len(uiGrid) - 1
                    THEN wraps + 1 ELSE wraps
  /\ uop' = [op |-> "onStep"]
  /\ UNCHANGED <<uiIsPlaying, tapTimes, dateNow, startBpm, steady, pickers,
                 uiGrid, synthVars, micVars, currentTime>>
  /\ EngineEffectOn([Eng EXCEPT !.callbacks = Tail(callbacks)])

\* the audio clock advances once the due timers have fired
TrainerAdvance ==
  /\ timers # {} \/ callbacks # <<>>
  /\ ~Overdue
  /\ currentTime + TrainerClockStep <= MaxTrainerTime
  /\ currentTime' = currentTime + TrainerClockStep
  /\ mop' = [op |-> "advance"]
  /\ UNCHANGED <<engineVars, timers, callbacks, schedCount, gridFixed,
                 tickInfo, lastOnStep, runs, setterCalls, synthVars, micVars, uiVars,
                 pureVars>>

RNext ==
  \/ ChooseTempo
  \/ ToggleTrainer
  \/ TogglePlay
  \/ Tick
  \/ OnStep
  \/ TrainerAdvance

SpecTrainer == CInit /\ [][RNext]_vars

\* --- the speed trainer on short bars, with the mode buttons
\* the numerator picker, used before play is pressed; the grid effect and
\* the engine effect follow
ChooseBeats ==
  \E n \in BarBeats :
    /\ ~uiIsPlaying /\ runs = 0 /\ pickers.mode = "STANDARD"
    /\ pickers' = [pickers EXCEPT !.numerator = n]
    /\ uiGrid' = GridEffectResult(uiGrid, pickers')
    /\ uop' = [op |-> "numerator"]
    /\ UNCHANGED <<uiBpm, uiIsPlaying, trainerSettings, currentStepIndex,
                   prevStepRef, tapTimes, dateNow, wraps, startBpm, steady,
                   synthVars, micVars>>
    /\ EngineEffectAfter

\* the tempo is chosen on the slider before play is pressed
ChooseFastTempo == ~uiIsPlaying /\ runs = 0 /\ Slider(BarBpms)

\* a mode button pressed during play:
\* setMode(m); setIsPlaying(false); setCurrentStepIndex(-1)
SwitchMode ==
  \E m \in Modes :
    /\ uiIsPlaying
    /\ pickers' = [pickers EXCEPT !.mode = m]
    /\ uiGrid' = IF m # pickers.mode THEN GridEffectResult(uiGrid, pickers')
                 ELSE uiGrid
    /\ uiIsPlaying' = FALSE
    /\ currentStepIndex' = -1
    /\ LET r == IF uiIsPlaying \/ currentStepIndex # -1
                THEN TrainerEffect(prevStepRef, -1, FALSE, trainerSettings,
                                   uiBpm)
                ELSE [prevStepRef |-> prevStepRef,
                      settings |-> trainerSettings, bpm |-> uiBpm]
       IN /\ prevStepRef' = r.prevStepRef
          /\ trainerSettings' = r.settings
          /\ uiBpm' = r.bpm
    /\ steady' = FALSE
    /\ uop' = [op |-> "mode"]
    /\ UNCHANGED <<tapTimes, dateNow, wraps, startBpm, synthVars, micVars>>
    /\ EngineEffectAfter

\* the audio clock advances once the due timers have fired
BarsAdvance ==
  /\ timers # {} \/ callbacks # <<>>
  /\ ~Overdue
  /\ currentTime + TrainerClockStep <= MaxBarsTime
  /\ currentTime' = currentTime + TrainerClockStep
  /\ mop' = [op |-> "advance"]
  /\ UNCHANGED <<engineVars, timers, callbacks, schedCount, gridFixed,
                 tickInfo, lastOnStep, runs, setterCalls, synthVars, micVars, uiVars,
                 pureVars>>

ONext ==
  \/ ChooseBeats
  \/ ChooseFastTempo
  \/ SwitchMode
  \/ ToggleTrainer
  \/ TogglePlay
  \/ Tick
  \/ OnStep
  \/ BarsAdvance

SpecBars == CInit /\ [][ONext]_vars

\* --- the beats of the bar changed while the metronome plays
\* the numerator picker at any moment; the grid effect and the engine
\* effect follow
PickBeats ==
  \E n \in {2, 3, 4} :
    /\ n # pickers.numerator
    /\ pickers' = [pickers EXCEPT !.numerator = n]
    /\ uiGrid' = GridEffectResult(uiGrid, pickers')
    /\ uop' = [op |-> "numerator"]
    /\ UNCHANGED <<uiBpm, uiIsPlaying, trainerSettings, currentStepIndex,
                   prevStepRef, tapTimes, dateNow, wraps, startBpm, steady,
                   synthVars, micVars>>
    /\ EngineEffectAfter

HNext ==
  \/ PickBeats
  \/ TogglePlay
  \/ Tick
  \/ OnStep
  \/ BarsAdvance

SpecShrink == CInit /\ [][HNext]_vars

\* --- editing the pattern of the stopped metronome
\* cycleIntensity without the test of the mode
cycleIntensityAnyMode(g, mode, index) ==
  LET currentIntensity == g[index + 1]
      next == (currentIntensity + 1) % 3
  IN [g EXCEPT ![index + 1] = next]

\* cycleIntensity(index): the grid state after it
cycleIntensity(g, mode, index) ==
  IF mode = "POLYRHYTHM" THEN g
  ELSE LET currentIntensity == g[index + 1]
           next == (currentIntensity + 1) % 3
       IN [g EXCEPT ![index + 1] = next]

\* a click on the beat cell idx
CycleCell ==
  \E idx \in 0..(Len(uiGrid) - 1) :
    /\ uiGrid' = cycleIntensity(uiGrid, pickers.mode, idx)
    /\ uop' = [op |-> "cycle", index |-> idx, before |-> uiGrid,
               mode |-> pickers.mode]
    /\ UNCHANGED <<uiBpm, uiIsPlaying, trainerSettings, currentStepIndex,
                   prevStepRef, tapTimes, dateNow, wraps, startBpm, steady,
                   pickers, synthVars, micVars>>
    /\ EngineEffectAfter

\* the STANDARD and POLYRHYTHM buttons; the grid effect runs when the mode
\* has changed
PickMode ==
  \E m \in {"STANDARD", "POLYRHYTHM"} :
    /\ pickers' = [pickers EXCEPT !.mode = m]
    /\ uiIsPlaying' = FALSE
    /\ currentStepIndex' = -1
    /\ uiGrid' = IF m # pickers.mode THEN GridEffectResult(uiGrid, pickers')
                 ELSE uiGrid
    /\ uop' = [op |-> "mode"]
    /\ UNCHANGED <<uiBpm, trainerSettings, prevStepRef, tapTimes, dateNow,
                   wraps, startBpm, steady, synthVars, micVars>>
    /\ EngineEffectAfter

ENext == CycleCell \/ PickMode \/ PickBeats

SpecPattern == CInit /\ [][ENext]_vars

\* ------------------------------------------------------- Tuner component
\* The component and the browser objects it holds, as one value; `ran`
\* tells whether updatePitch got past its guard in this operation.
Tun ==
  [ isListening |-> isListening, tunerData |-> tunerData,
    micVolume |-> micVolume, error |-> error,
    isListeningRef |-> isListeningRef, rafId |-> rafId,
    sourceRef |-> sourceRef, mounted |-> mounted, streams |-> streams,
    frames |-> frames, ran |-> FALSE ]

TunCommit(t) ==
  /\ isListening' = t.isListening
  /\ tunerData' = t.tunerData
  /\ micVolume' = t.micVolume
  /\ error' = t.error
  /\ isListeningRef' = t.isListeningRef
  /\ rafId' = t.rafId
  /\ sourceRef' = t.sourceRef
  /\ mounted' = t.mounted
  /\ streams' = t.streams
  /\ frames' = t.frames

\* requestAnimationFrame returns a handle no pending request has
NewFrame(used) == CHOOSE n \in 1..(Cardinality(used) + 1) : n \notin used

updatePitchNoGuard(t, heard) ==
  LET f == NewFrame(t.frames \cup {t.rafId})
      u == [t EXCEPT !.ran = TRUE, !.rafId = f, !.frames = @ \cup {f}]
  IN IF t.mounted
     THEN [u EXCEPT !.micVolume = IF heard THEN 1 ELSE 0,
                    !.tunerData = IF heard THEN "note"
                                  ELSE IF @ = "null" THEN "null"
                                  ELSE "silent"]
     ELSE u

\* updatePitch(): one per-frame callback.  `heard` says whether the buffer
\* read from the analyser gave a frequency between 20 and 5000 Hz.  State
\* setters of an unmounted component have no effect.
updatePitch(t, heard) ==
  IF ~t.isListeningRef THEN t
  ELSE LET f == NewFrame(t.frames \cup {t.rafId})
           u == [t EXCEPT !.ran = TRUE, !.rafId = f, !.frames = @ \cup {f}]
       IN IF t.mounted
          THEN [u EXCEPT !.micVolume = IF heard THEN 1 ELSE 0,
                         !.tunerData = IF heard THEN "note"
                                       ELSE IF @ = "null" THEN "null"
                                       ELSE "silent"]
          ELSE u

\* startTuner() from the last await on: the source of stream s is stored,
\* the flags are raised and the first updatePitch() is called directly
startTunerAfterAwait(t, s, heard) ==
  LET a == [t EXCEPT !.sourceRef = s, !.isListeningRef = TRUE]
      b == IF a.mounted
           THEN [a EXCEPT !.isListening = TRUE, !.error = FALSE]
           ELSE a
  IN updatePitch(b, heard)

startTunerCatchSilent(t) == t

\* the catch block of startTuner(): setError(message)
startTunerCatch(t) ==
  IF t.mounted THEN [t EXCEPT !.error = TRUE] ELSE t

\* stopTuner()
stopTuner(t) ==
  LET a == [t EXCEPT !.isListeningRef = FALSE]
      b == IF a.rafId # NoFrame
           THEN [a EXCEPT !.frames = @ \ {a.rafId}, !.rafId = NoFrame]
           ELSE a
      c == IF b.sourceRef # NoSource
           THEN [b EXCEPT !.streams[b.sourceRef] = FALSE,
                          !.sourceRef = NoSource]
           ELSE b
  IN IF c.mounted
     THEN [c EXCEPT !.isListening = FALSE, !.tunerData = "null",
                    !.micVolume = 0]
     ELSE c

\* --- the tuner: start and stop clicks, unmount, the microphone request
\* the button while it reads "start": startTuner() up to its first await
StartTuner ==
  /\ mounted /\ ~isListening
  /\ starts < MaxStarts
  /\ starts' = starts + 1
  /\ pendingMedia' = pendingMedia \cup
       { [id |-> starts + 1, stage |-> "getUserMedia", stream |-> NoSource] }
  /\ quiet' = [on |-> FALSE, stream |-> NoSource, frame |-> NoFrame]
  /\ lastStop' = FALSE
  /\ top' = [op |-> "start", ran |-> FALSE]
  /\ UNCHANGED <<isListening, tunerData, micVolume, error, isListeningRef,
                 rafId, sourceRef, mounted, streams, frames>>
  /\ UNCHANGED <<metroVars, synthVars, uiVars, pureVars, pitchVars,
                 playVars>>

\* getUserMedia resolves with a new stream; startTuner() goes on to the end,
\* or to `await ctx.resume()` when the AudioContext is suspended
GetUserMediaResolves ==
  \E p \in pendingMedia, suspended \in BOOLEAN, heard \in BOOLEAN :
    /\ p.stage = "getUserMedia"
    /\ LET t == [Tun EXCEPT !.streams = Append(@, TRUE)]
           s == Len(t.streams)
       IN IF suspended
          THEN /\ TunCommit(t)
               /\ pendingMedia' = (pendingMedia \ {p}) \cup
                    { [p EXCEPT !.stage = "resume", !.stream = s] }
               /\ top' = [op |-> "acquired", ran |-> FALSE]
          ELSE LET u == startTunerAfterAwait(t, s, heard)
               IN /\ TunCommit(u)
                  /\ pendingMedia' = pendingMedia \ {p}
                  /\ top' = [op |-> "started", ran |-> u.ran]
    /\ UNCHANGED <<starts, quiet, lastStop>>
    /\ UNCHANGED <<metroVars, synthVars, uiVars, pureVars, pitchVars,
                 playVars>>

\* ctx.resume() resolves; startTuner() goes on to the end
ResumeResolves ==
  \E p \in pendingMedia, heard \in BOOLEAN :
    /\ p.stage = "resume"
    /\ LET u == startTunerAfterAwait(Tun, p.stream, heard)
       IN /\ TunCommit(u)
          /\ top' = [op |-> "started", ran |-> u.ran]
    /\ pendingMedia' = pendingMedia \ {p}
    /\ UNCHANGED <<starts, quiet, lastStop>>
    /\ UNCHANGED <<metroVars, synthVars, uiVars, pureVars, pitchVars,
                 playVars>>

\* getUserMedia rejects: permission denied or no microphone
GetUserMediaRejects ==
  \E p \in pendingMedia :
    /\ p.stage = "getUserMedia"
    /\ TunCommit(startTunerCatch(Tun))
    /\ pendingMedia' = pendingMedia \ {p}
    /\ top' = [op |-> "failed", ran |-> FALSE]
    /\ UNCHANGED <<starts, quiet, lastStop>>
    /\ UNCHANGED <<metroVars, synthVars, uiVars, pureVars, pitchVars,
                 playVars>>

\* what a stopTuner() call leaves for the history variables
Stopped ==
  /\ quiet' = [on |-> pendingMedia = {}, stream |-> sourceRef,
               frame |-> rafId]
  /\ lastStop' = TRUE
  /\ UNCHANGED <<starts, pendingMedia>>
  /\ UNCHANGED <<metroVars, synthVars, uiVars, pureVars, pitchVars,
                 playVars>>

\* the button while it reads "stop"
StopTuner ==
  /\ mounted /\ isListening
  /\ TunCommit(stopTuner(Tun))
  /\ top' = [op |-> "stop", ran |-> FALSE]
  /\ Stopped

\* the cleanup of the mount effect; the component's state goes with it
Unmount ==
  /\ mounted
  /\ TunCommit([stopTuner(Tun) EXCEPT !.mounted = FALSE])
  /\ top' = [op |-> "unmount", ran |-> FALSE]
  /\ Stopped

\* the browser runs one requested frame callback
AnimationFrame ==
  \E f \in frames, heard \in BOOLEAN :
    LET u == updatePitch([Tun EXCEPT !.frames = @ \ {f}], heard)
    IN /\ TunCommit(u)
       /\ top' = [op |-> "frame", ran |-> u.ran]
       /\ UNCHANGED <<starts, quiet, lastStop, pendingMedia>>
       /\ UNCHANGED <<metroVars, synthVars, uiVars, pureVars, pitchVars,
                 playVars>>

UNext ==
  \/ StartTuner
  \/ GetUserMediaResolves
  \/ ResumeResolves
  \/ GetUserMediaRejects
  \/ StopTuner
  \/ Unmount
  \/ AnimationFrame

SpecTuner == Init /\ [][UNext]_vars

\* --- pitch detection on every buffer
DInit ==
  /\ MInit /\ SInit /\ UInit /\ PInit /\ TunerInit /\ PlayInit
  /\ buf \in Buffers
  /\ sampleRate \in SampleRates
  /\ frequency = Tone(0)
  /\ pop = [op |-> "new"]

AutoCorrelate ==
  /\ pop' = [op |-> "autoCorrelate", out |-> autoCorrelate(buf, sampleRate)]
  /\ UNCHANGED <<buf, sampleRate, frequency>>
  /\ UNCHANGED <<metroVars, synthVars, uiVars, pureVars, tunerVars,
                 playVars>>

DNext == AutoCorrelate

SpecDetect == DInit /\ [][DNext]_vars

\* --- note lookup for every frequency
NInit ==
  /\ MInit /\ SInit /\ UInit /\ PInit /\ TunerInit /\ PlayInit
  /\ buf = <<>>
  /\ sampleRate = 44100
  /\ frequency \in Frequencies
  /\ pop = [op |-> "new", of |-> Undefined]

\* PolySynth.play computes the frequency of a MIDI pitch
MidiFrequency ==
  \E midi \in MidiPitches :
    /\ frequency' = FreqOfMidi(midi)
    /\ pop' = [op |-> "play", of |-> midi]
    /\ UNCHANGED <<buf, sampleRate>>
    /\ UNCHANGED <<metroVars, synthVars, uiVars, pureVars, tunerVars,
                 playVars>>

\* getNoteFromFrequency(frequency); the record keeps the midi and noteIndex
\* locals and the MIDI pitch the frequency came from, if it came from one
GetNote ==
  \E r \in Roundings :
    LET out == getNoteFromFrequency(frequency, r)
        midi == IF frequency.k = "pow"
                THEN RoundMidi(NoteNum100(frequency), r)
                ELSE Undefined
    IN /\ pop' = [op |-> "getNote", of |-> pop.of, out |-> out, r |-> r,
                  midi |-> midi,
                  noteIndex |-> IF frequency.k = "pow"
                                THEN NoteIndex(midi)
                                ELSE Undefined]
       /\ UNCHANGED <<buf, sampleRate, frequency>>
       /\ UNCHANGED <<metroVars, synthVars, uiVars, pureVars, tunerVars,
                 playVars>>

NNext ==
  \/ MidiFrequency
  \/ GetNote

SpecNote == NInit /\ [][NNext]_vars

\* ----------------------------------------------------- Keyboard component
\* playInternal: the pitches sounded for a key
Intervals(chordType) ==
  IF chordType = "m" THEN <<0, 3, 7>>
  ELSE IF chordType = "d" THEN <<0, 3, 6>>
  ELSE <<0, 4, 7>>

\* 60 + offset + transpose
getMidiNote(offset, tr) == 60 + offset + tr

\* intervals.forEach(i => synth.play(root + i))
RECURSIVE PlayEach(_, _, _)
PlayEach(s, root, ints) ==
  IF ints = <<>> THEN s
  ELSE PlayEach(SynthPlay(s, root + Head(ints)), root, Tail(ints))

\* intervals.forEach(i => synth.stop(root + i, false))
RECURSIVE StopEachOf(_, _, _)
StopEachOf(s, root, ints) ==
  IF ints = <<>> THEN s
  ELSE StopEachOf(SynthStop(s, root + Head(ints), FALSE), root, Tail(ints))

\* playInternal(offset, chordType) on synth state s, outside training and
\* quiz rounds
playInternal(s, offset, chordType, smart, tr) ==
  LET midi == getMidiNote(offset, tr)
  IN IF smart /\ chordType # NoChord
     THEN PlayEach(s, midi, Intervals(chordType))
     ELSE SynthPlay(s, midi)

\* stopInternal that stops the major triad only
stopInternalMajorOnly(s, offset, chordType, smart, tr) ==
  IF smart /\ chordType # NoChord
  THEN StopEachOf(s, getMidiNote(offset, tr), <<0, 4, 7>>)
  ELSE SynthStop(s, getMidiNote(offset, tr), FALSE)

\* stopInternal(offset, chordType)
stopInternal(s, offset, chordType, smart, tr) ==
  IF smart /\ chordType # NoChord
  THEN StopEachOf(s, getMidiNote(offset, tr), <<0, 3, 4, 6, 7>>)
  ELSE SynthStop(s, getMidiNote(offset, tr), FALSE)

\* a PolySynth whose map covers every pitch the keys can sound
KeyInit ==
  /\ MInit /\ UInit /\ PInit /\ TunerInit /\ PitchInit /\ PlayInit
  /\ activeNotes = [m \in KeyMidis |-> NoVoice]
  /\ decayMode = TRUE
  /\ voices = <<>>
  /\ safetyTimers = {}
  /\ sop = [op |-> "new"]

KeyFrame ==
  UNCHANGED <<metroVars, uiVars, pureVars, tunerVars, pitchVars, rhythmVars,
              currentChordName, correctChordNotes, sop>>

\* the record of a press: the voices it started, and whether the chord
\* flag and transpose (steady, while the key is down) and the latch
\* (latchOff) stayed as they were
Pressed(started, latchOff) ==
  [down |-> TRUE, voices |-> started, steady |-> TRUE,
   latchOff |-> latchOff, released |-> FALSE]

\* keydown of a bound key that is not held: handleNoteStart(.., true)
KeyDown ==
  \E k \in KeyBindings :
    LET has == k.keyBind \in activeKeys
        played == playInternal(Syn, k.offset, k.chordType, isSmartChord,
                               transpose)
        started == (Len(voices) + 1)..Len(played.voices)
    IN /\ ~presses[k.keyBind].down
       /\ keyPresses < MaxPresses
       /\ keyPresses' = keyPresses + 1
       /\ IF isSustain /\ has
          THEN /\ activeKeys' = activeKeys \ {k.keyBind}
               /\ SynCommit(stopInternal(Syn, k.offset, k.chordType,
                                      isSmartChord, transpose))
               /\ presses' = [presses EXCEPT ![k.keyBind] =
                                Pressed({}, FALSE)]
          ELSE IF ~isSustain /\ has
          THEN /\ UNCHANGED <<activeKeys, activeNotes, decayMode, voices,
                              safetyTimers>>
               /\ presses' = [presses EXCEPT ![k.keyBind] =
                                Pressed({}, TRUE)]
          ELSE /\ activeKeys' = activeKeys \cup {k.keyBind}
               /\ SynCommit(played)
               /\ presses' = [presses EXCEPT ![k.keyBind] =
                                Pressed(started, ~isSustain)]
       /\ kop' = [op |-> "press", key |-> k.keyBind]
       /\ UNCHANGED <<transpose, isSmartChord, isSustain, isDecayMode>>
       /\ KeyFrame

\* keyup of a held key: handleNoteStop(.., true)
KeyUp ==
  \E k \in KeyBindings :
    LET called == ~isSustain /\ ~isDecayMode
    IN /\ presses[k.keyBind].down
       /\ IF isSustain
          THEN UNCHANGED <<activeKeys, activeNotes, decayMode, voices,
                           safetyTimers>>
          ELSE IF isDecayMode
          THEN /\ activeKeys' = activeKeys \ {k.keyBind}
               /\ UNCHANGED <<activeNotes, decayMode, voices, safetyTimers>>
          ELSE /\ activeKeys' = activeKeys \ {k.keyBind}
               /\ SynCommit(stopInternal(Syn, k.offset, k.chordType,
                                      isSmartChord, transpose))
       /\ presses' = [presses EXCEPT ![k.keyBind].down = FALSE,
                                     ![k.keyBind].released = TRUE,
                                     ![k.keyBind].steady = TRUE,
                                     ![k.keyBind].latchOff = @ /\ ~isSustain]
       /\ kop' = [op |-> "release", key |-> k.keyBind, offset |-> k.offset,
                  chordType |-> k.chordType, called |-> called,
                  steady |-> presses[k.keyBind].steady]
       /\ UNCHANGED <<transpose, isSmartChord, isSustain, isDecayMode>>
       /\ UNCHANGED keyPresses
       /\ KeyFrame

\* pointerdown on a piano key: handleNoteStart(.., false)
PointerDown ==
  \E k \in PianoKeys :
    LET played == playInternal(Syn, k.offset, k.chordType, isSmartChord,
                               transpose)
        started == (Len(voices) + 1)..Len(played.voices)
    IN /\ ~presses[k.keyBind].down
       /\ keyPresses < MaxPresses
       /\ keyPresses' = keyPresses + 1
       /\ SynCommit(played)
       /\ presses' = [presses EXCEPT ![k.keyBind] =
                        Pressed(started, ~isSustain)]
       /\ kop' = [op |-> "press", key |-> k.keyBind]
       /\ UNCHANGED <<activeKeys, transpose, isSmartChord, isSustain,
                      isDecayMode>>
       /\ KeyFrame

\* pointerup or pointerleave on a pressed piano key:
\* handleNoteStop(.., false)
PointerUp ==
  \E k \in PianoKeys :
    /\ presses[k.keyBind].down
    /\ SynCommit(stopInternal(Syn, k.offset, k.chordType, isSmartChord,
                           transpose))
    /\ presses' = [presses EXCEPT ![k.keyBind].down = FALSE,
                                  ![k.keyBind].released = TRUE,
                                  ![k.keyBind].steady = TRUE,
                                  ![k.keyBind].latchOff = @ /\ ~isSustain]
    /\ kop' = [op |-> "release", key |-> k.keyBind, offset |-> k.offset,
               chordType |-> k.chordType, called |-> TRUE,
               steady |-> presses[k.keyBind].steady]
    /\ UNCHANGED <<activeKeys, transpose, isSmartChord, isSustain,
                   isDecayMode>>
    /\ UNCHANGED keyPresses
    /\ KeyFrame

\* what a change of the chord flag or of transpose does to the record of
\* the keys held
Unsteady == [k \in KeyNames |->
               IF presses[k].down THEN [presses[k] EXCEPT !.steady = FALSE]
               ELSE presses[k]]

\* a key is down or another press is to come
KeysInUse ==
  \/ keyPresses < MaxPresses
  \/ \E k \in KeyNames : presses[k].down

\* the decay button, and the effect that copies the flag to the synth
ToggleDecay ==
  /\ KeysInUse
  /\ isDecayMode' = ~isDecayMode
  /\ decayMode' = isDecayMode'
  /\ kop' = [op |-> "decay"]
  /\ UNCHANGED <<activeNotes, voices, safetyTimers, activeKeys, transpose,
                 isSmartChord, isSustain, presses>>
  /\ UNCHANGED keyPresses
  /\ KeyFrame

\* the chords button
ToggleChords ==
  /\ KeysInUse
  /\ isSmartChord' = ~isSmartChord
  /\ presses' = Unsteady
  /\ kop' = [op |-> "chords"]
  /\ UNCHANGED <<activeNotes, decayMode, voices, safetyTimers, activeKeys,
                 transpose, isSustain, isDecayMode>>
  /\ UNCHANGED keyPresses
  /\ KeyFrame

\* the transpose buttons: setTranspose(t => t - 1), setTranspose(t => t + 1)
Transpose ==
  \E d \in {-1, 1} :
    /\ KeysInUse
    /\ transpose + d \in 0..MaxTranspose
    /\ transpose' = transpose + d
    /\ presses' = Unsteady
    /\ kop' = [op |-> "transpose"]
    /\ UNCHANGED <<activeNotes, decayMode, voices, safetyTimers, activeKeys,
                   isSmartChord, isSustain, isDecayMode>>
    /\ UNCHANGED keyPresses
    /\ KeyFrame

\* the oldest safety timeout fires: all are set for 5000 ms, so that they
\* run in the order of the play() calls
KeyTimeout ==
  \E t \in safetyTimers :
    /\ \A u \in safetyTimers : t.noteObj <= u.noteObj
    /\ SynCommit(SafetyTimeout(Syn, t))
    /\ kop' = [op |-> "timeout"]
    /\ UNCHANGED <<activeKeys, transpose, isSmartChord, isSustain,
                   isDecayMode, presses>>
    /\ UNCHANGED keyPresses
    /\ KeyFrame

ANext ==
  \/ KeyDown
  \/ KeyUp
  \/ PointerDown
  \/ PointerUp
  \/ ToggleDecay
  \/ ToggleChords
  \/ Transpose
  \/ KeyTimeout

SpecKeys == KeyInit /\ [][ANext]_vars

\* the browser runs every timeout that is due
SpecKeysFair == SpecKeys /\ WF_vars(KeyTimeout)

\* --- the chord quiz
MAX_KEY_OFFSET == 28

\* ChordQuality (src/types.ts)
ChordQualities ==
  { "Major", "Minor", "Diminished", "Augmented", "Major 7", "Minor 7",
    "Dominant 7", "m7b5", "Diminished 7" }

\* the switch on the quality
QuizIntervals(quality) ==
  CASE quality = "Major" -> <<0, 4, 7>>
    [] quality = "Minor" -> <<0, 3, 7>>
    [] quality = "Diminished" -> <<0, 3, 6>>
    [] quality = "Augmented" -> <<0, 4, 8>>
    [] quality = "Major 7" -> <<0, 4, 7, 11>>
    [] quality = "Minor 7" -> <<0, 3, 7, 10>>
    [] quality = "Dominant 7" -> <<0, 4, 7, 10>>
    [] quality = "m7b5" -> <<0, 3, 6, 10>>
    [] quality = "Diminished 7" -> <<0, 3, 6, 9>>
    [] OTHER -> <<0, 4, 7>>

\* Math.max(...intervals)
MaxInterval(ints) ==
  CHOOSE x \in {ints[i] : i \in DOMAIN ints} :
    \A y \in {ints[i] : i \in DOMAIN ints} : y <= x

\* the draw (quality, rootOffset) ends the do-while loop
DrawFits(quality, rootOffset) ==
  ~(rootOffset + MaxInterval(QuizIntervals(quality)) > MAX_KEY_OFFSET)

\* what generateQuizQuestion sets for the chord it settled on
QuizQuestion(quality, rootOffset, tr) ==
  LET intervals == QuizIntervals(quality)
  IN [name |-> [root |-> NoteAt(rootOffset % 12), quality |-> quality],
      notes |-> [i \in DOMAIN intervals |->
                   60 + rootOffset + tr + intervals[i]]]

\* getNoteLabel(offset)
getNoteLabel(offset, tr) ==
  LET midi == getMidiNote(offset, tr)
  IN NoteAt(JsRem(JsRem(midi, 12) + 12, 12))

\* generateQuizQuestion(): the loop ends at a draw that fits the keyboard,
\* or gives C Major after 201 draws that do not
GenerateQuizQuestion ==
  \E quality \in ChordQualities, rootOffset \in 0..MAX_KEY_OFFSET,
     gaveUp \in BOOLEAN :
    LET q == IF gaveUp THEN QuizQuestion("Major", 0, transpose)
             ELSE QuizQuestion(quality, rootOffset, transpose)
    IN /\ gaveUp \/ DrawFits(quality, rootOffset)
       /\ currentChordName' = q.name
       /\ correctChordNotes' = q.notes
       /\ SynCommit(SynthStopAll(Syn))
       /\ kop' = [op |-> "question",
                  rootOffset |-> IF gaveUp THEN 0 ELSE rootOffset]
       /\ UNCHANGED <<transpose, activeKeys, isSmartChord, isSustain,
                      isDecayMode, presses, keyPresses, sop, metroVars,
                      uiVars, pureVars, tunerVars, pitchVars, rhythmVars>>

\* the transpose buttons next to the quiz
QuizTranspose ==
  \E d \in {-1, 1} :
    /\ transpose + d \in 0..MaxTranspose
    /\ transpose' = transpose + d
    /\ kop' = [op |-> "transpose"]
    /\ UNCHANGED <<activeKeys, isSmartChord, isSustain, isDecayMode,
                   currentChordName, correctChordNotes, presses, keyPresses,
                   synthVars, metroVars, uiVars, pureVars, tunerVars,
                   pitchVars, rhythmVars>>

QNext == GenerateQuizQuestion \/ QuizTranspose

SpecQuiz == Init /\ [][QNext]_vars

\* ------------------------------------------------------- RhythmTraining
\* RHYTHM_CELLS: the values are whole sixteenths of a bar (1.0 = 16), which
\* binary floating point adds without rounding
SixteenthsPerBar == 16
RHYTHM_CELLS ==
  << [id |-> "w", value |-> 16], [id |-> "h", value |-> 8],
     [id |-> "dq", value |-> 6], [id |-> "q", value |-> 4],
     [id |-> "e", value |-> 2], [id |-> "s", value |-> 1],
     [id |-> "hr", value |-> 8], [id |-> "qr", value |-> 4],
     [id |-> "er", value |-> 2] >>

\* CELL_MAP[id]?.value ?? 0
CellValue(id) ==
  IF \E i \in DOMAIN RHYTHM_CELLS : RHYTHM_CELLS[i].id = id
  THEN RHYTHM_CELLS[CHOOSE i \in DOMAIN RHYTHM_CELLS :
                      RHYTHM_CELLS[i].id = id].value
  ELSE 0

DIFF_CELLS ==
  [easy |-> {"w", "h", "q"},
   medium |-> {"w", "h", "dq", "q", "e", "qr", "er"},
   hard |-> {"w", "h", "dq", "q", "e", "s", "hr", "qr", "er"}]

\* cells.reduce((sum, id) => sum + (CELL_MAP[id]?.value ?? 0), 0)
RECURSIVE CellsTotal(_)
CellsTotal(cells) ==
  IF cells = <<>> THEN 0
  ELSE CellsTotal(SubSeq(cells, 1, Len(cells) - 1))
         + CellValue(cells[Len(cells)])

\* total > 1.0 + 0.001, in thousandths of a sixteenth
ExceedsBar(total) == 1000 * total > 1000 * SixteenthsPerBar + 16

\* addCell without the test of the total
addCellUnchecked(cells, cellId) ==
  Append(cells, cellId)

\* addCell(cellId): the cells after it
addCell(cells, cellId) ==
  IF ExceedsBar(CellsTotal(cells) + CellValue(cellId)) THEN cells
  ELSE Append(cells, cellId)

\* prev.slice(0, -1)
removeLastCell(cells) ==
  IF cells = <<>> THEN cells ELSE SubSeq(cells, 1, Len(cells) - 1)

\* prev.filter((_, j) => j !== i), i counted from 0
removeCellAt(cells, i) ==
  [j \in 1..(Len(cells) - 1) |-> IF j <= i THEN cells[j] ELSE cells[j + 1]]

\* a palette button of the current difficulty
AddCell ==
  \E cellId \in DIFF_CELLS[difficulty] :
    /\ Len(userCells) < MaxCells
    /\ userCells' = addCell(userCells, cellId)
    /\ rop' = [op |-> "add", cell |-> cellId,
               refused |-> (userCells' = userCells)]
    /\ UNCHANGED <<difficulty, keyVars, metroVars, synthVars, uiVars,
                   pureVars, tunerVars, pitchVars>>

\* the delete-last button, shown while there are cells
RemoveLastCell ==
  /\ userCells # <<>>
  /\ userCells' = removeLastCell(userCells)
  /\ rop' = [op |-> "removeLast"]
  /\ UNCHANGED <<difficulty, keyVars, metroVars, synthVars, uiVars,
                 pureVars, tunerVars, pitchVars>>

\* a click on the i-th entered cell
RemoveCell ==
  \E i \in 0..(Len(userCells) - 1) :
    /\ userCells' = removeCellAt(userCells, i)
    /\ rop' = [op |-> "remove"]
    /\ UNCHANGED <<difficulty, keyVars, metroVars, synthVars, uiVars,
                   pureVars, tunerVars, pitchVars>>

\* a difficulty button: setDifficulty(d) and setUserCells([])
PickDifficulty ==
  \E d \in DOMAIN DIFF_CELLS :
    /\ difficulty' = d
    /\ userCells' = <<>>
    /\ rop' = [op |-> "difficulty"]
    /\ UNCHANGED <<keyVars, metroVars, synthVars, uiVars, pureVars,
                   tunerVars, pitchVars>>

YNext ==
  \/ AddCell
  \/ RemoveLastCell
  \/ RemoveCell
  \/ PickDifficulty

SpecRhythm == Init /\ [][YNext]_vars

\* ============================================================== claims
IsInvalidBpm(b) == ~(IsFinite(b) /\ IsPositive(b))

\* C1: once stop() has returned, no onStep callback of a step that was
\* scheduled before that stop is delivered, also when start() is called
\* again before the callback is due.
C1_NoStaleOnStep == lastOnStep.stale = FALSE

\* C2: with a non-empty grid of length L unchanged since start(), the k-th
\* step scheduled since start() is k mod L, and the step to schedule next is
\* the number of steps scheduled so far mod L: no step is skipped or
\* repeated across ticks, resynchronisations and ticks that run to the
\* iteration cap.
C2_StepsInOrder ==
  /\ \A i \in DOMAIN tickInfo.notes :
       LET n == tickInfo.notes[i]
       IN (n.fixed /\ n.glen > 0) => n.step = n.k % n.glen
  /\ (isPlaying /\ gridFixed /\ Len(grid) > 0)
       => currentStep = schedCount % Len(grid)

C2_Witness ==
  /\ isPlaying /\ gridFixed /\ Len(grid) > 0
  /\ tickInfo.resynced
  /\ tickInfo.iterations = MaxIterations
  /\ schedCount > MaxIterations

\* C3: start() on a running engine changes no engine field, no timer and
\* schedules nothing; stop() on a stopped engine changes no engine field and
\* no timer.
C3_StartStopIdempotent ==
  [][ /\ (mop'.op = "start" /\ isPlaying)
         => UNCHANGED <<engineVars, timers, callbacks, schedCount>>
      /\ (mop'.op = "stop" /\ ~isPlaying)
         => UNCHANGED <<engineVars, timers>> ]_vars

C3_Witness ==
  /\ mop = [op |-> "start", noop |-> TRUE]
  /\ isPlaying
  /\ currentStep > 0
  /\ timerID # NoTimer

\* C4: every pitch has at most one voice whose oscillator has not been told
\* to stop; play(p) registers a new voice for p and, if p had an active
\* voice, that voice has been force-stopped (immediate fade) once.
C4_OneVoicePerPitch ==
  /\ \A p \in Midis :
       Cardinality({v \in DOMAIN voices :
                      voices[v].midi = p /\ voices[v].oscStops = 0}) <= 1
  /\ sop.op = "play" =>
       /\ activeNotes[sop.midi] = Len(voices)
       /\ voices[Len(voices)].midi = sop.midi
       /\ voices[Len(voices)].oscStops = 0
       /\ sop.replaced # NoVoice =>
            /\ sop.replaced # Len(voices)
            /\ voices[sop.replaced].fade = "immediate"
            /\ voices[sop.replaced].oscStops = 1

C4_Witness == sop.op = "play" /\ sop.replaced # NoVoice

\* C5: stop(p) on a pitch with no active voice changes nothing, and a
\* stop(p) that directly follows a stop(p) changes nothing.
C5_StopIdempotent ==
  [][ /\ (sop'.op = "stop" /\ activeNotes[sop'.midi] = NoVoice)
         => UNCHANGED <<activeNotes, voices, safetyTimers, decayMode>>
      /\ (sop.op = "stop" /\ sop'.op = "stop" /\ sop'.midi = sop.midi)
         => UNCHANGED <<activeNotes, voices, safetyTimers, decayMode>> ]_vars

C5_Witness ==
  /\ sop.op = "stop"
  /\ sop.had = NoVoice
  /\ \E v \in DOMAIN voices : voices[v].midi = sop.midi /\ voices[v].isStopped

\* C6: a voice started in decay mode either still has its safety timeout
\* pending or is no longer the active voice of its pitch, whatever decayMode
\* is by then.
C6_DecayVoiceReleased ==
  /\ \A v \in DOMAIN voices :
       voices[v].decay =>
         \/ \E t \in safetyTimers : t.noteObj = v
         \/ activeNotes[voices[v].midi] # v
  /\ sop.op = "timeout" => activeNotes[sop.midi] # sop.noteObj

C6_Witness == sop.op = "timeout" /\ sop.stopped /\ ~decayMode

\* C7: a voice started with decay mode off is stopped only by stop(p),
\* stopAll() or a play(p) of its own pitch, never by a timeout, and no
\* timeout is ever armed for it.
C7_SustainVoiceNotTimed ==
  [][ /\ \A v \in DOMAIN voices :
           (~voices[v].decay /\ ~voices[v].isStopped /\ voices'[v].isStopped)
             => \/ sop'.op = "stopAll"
                \/ sop'.op \in {"stop", "play"} /\ sop'.midi = voices[v].midi
      /\ \A t \in safetyTimers' : voices'[t.noteObj].decay ]_vars

C7_Witness ==
  /\ sop.op = "timeout"
  /\ decayMode
  /\ \E v \in DOMAIN voices :
       /\ ~voices[v].decay
       /\ ~voices[v].isStopped
       /\ activeNotes[voices[v].midi] = v

\* C8: after stopAll() the voice map is empty and every voice that was
\* active has been force-stopped (immediate fade) exactly once.
C8_StopAllEmpties ==
  sop.op = "stopAll" =>
    /\ \A m \in Midis : activeNotes[m] = NoVoice
    /\ \A v \in sop.had :
         /\ voices[v].isStopped
         /\ voices[v].oscStops = 1
         /\ voices[v].fade = "immediate"

C8_Witness == sop.op = "stopAll" /\ Cardinality(sop.had) = 2

\* C9: a step scheduled while the grid is empty creates no oscillator.
C9_EmptyGridSilent ==
  \A i \in DOMAIN tickInfo.notes :
    tickInfo.notes[i].glen = 0 => tickInfo.notes[i].freqs = <<>>

\* C10 as stated: whenever setParams is reached with a non-finite or
\* non-positive bpm, directly or through the component's effect, the engine
\* holds 120.
C10_SetParamsSubstitutes ==
  (mop.op \in {"setParams", "paramEffect"} /\ IsInvalidBpm(mop.bpm))
    => bpm = Num(DefaultBpm)

\* C10 amended: the component's effect replaces a non-finite or non-positive
\* bpm by 120 before it calls the engine, so after the effect the engine
\* holds 120 and the step interval derived from 120.
C10_EffectSubstitutes ==
  (mop.op = "paramEffect" /\ IsInvalidBpm(mop.bpm))
    => /\ bpm = Num(DefaultBpm)
       /\ stepInterval = Max(MinStepInterval,
                             StepTime(Num(DefaultBpm), mop.cfg))

C10_Witness ==
  /\ mop.op = "paramEffect"
  /\ mop.bpm = PosInfinity
  /\ bpm = Num(DefaultBpm)
  /\ isPlaying

\* the least common multiple as arithmetic defines it
LeastCommonMultiple(a, b) ==
  CHOOSE m \in 1..(a * b) :
    /\ m % a = 0 /\ m % b = 0
    /\ \A k \in 1..(m - 1) : ~(k % a = 0 /\ k % b = 0)

\* the number of indices of g carrying one of the given tags
CountTagged(g, tags) == Cardinality({ k \in DOMAIN g : g[k] \in tags })

\* C15: a freshly generated standard-mode grid for beats in 1..16 and
\* subdivision in {1,2,4} has length beats x subdivision, STRONG at index 0,
\* WEAK at every other index that is a multiple of the subdivision and MUTE
\* elsewhere; for 4 beats and subdivision 1 it is [STRONG, WEAK, WEAK, WEAK]
\* with a step of 0.5 s at 120 BPM.
C15_StandardGrid ==
  (pickers.mode = "STANDARD" /\ uiGrid # <<>>) =>
    /\ Len(uiGrid) = pickers.numerator * pickers.subdivision
    /\ \A i \in 0..(Len(uiGrid) - 1) :
         uiGrid[i + 1] = IF i = 0 THEN STRONG
                         ELSE IF i % pickers.subdivision = 0 THEN WEAK
                         ELSE MUTE
    /\ (pickers.numerator = 4 /\ pickers.subdivision = 1) =>
         /\ uiGrid = <<STRONG, WEAK, WEAK, WEAK>>
         /\ (uiBpm = 120 /\ stepOut.set) => 2 * stepOut.num = stepOut.den

C15_Witness ==
  /\ pickers.mode = "STANDARD"
  /\ pickers.numerator = 3 /\ pickers.subdivision = 2
  /\ uiGrid = <<STRONG, MUTE, WEAK, MUTE, WEAK, MUTE>>
  /\ stepOut.set

\* C16: for all stepsA, stepsB in 1..12 the polyrhythm grid has length
\* L = lcm(stepsA, stepsB); index i is POLY_BOTH when it is a multiple of
\* both L/stepsA and L/stepsB, POLY_A when only of the first, POLY_B when
\* only of the second, MUTE otherwise; 3 against 4 gives length 12 with
\* POLY_BOTH at 0, POLY_A at 4 and 8, POLY_B at 3, 6 and 9.
C16_PolyGrid ==
  (pickers.mode = "POLYRHYTHM" /\ uiGrid # <<>>) =>
    LET L == LeastCommonMultiple(pickers.polyA, pickers.polyB)
        inA(i) == i % (L \div pickers.polyA) = 0
        inB(i) == i % (L \div pickers.polyB) = 0
    IN /\ Len(uiGrid) = L
       /\ \A i \in 0..(Len(uiGrid) - 1) :
            uiGrid[i + 1] = IF inA(i) /\ inB(i) THEN POLY_BOTH
                            ELSE IF inA(i) THEN POLY_A
                            ELSE IF inB(i) THEN POLY_B
                            ELSE MUTE
       /\ (pickers.polyA = 3 /\ pickers.polyB = 4) =>
            uiGrid = <<POLY_BOTH, MUTE, MUTE, POLY_B, POLY_A, MUTE,
                       POLY_B, MUTE, POLY_A, POLY_B, MUTE, MUTE>>

C16_Witness ==
  /\ pickers.mode = "POLYRHYTHM"
  /\ pickers.polyA = 3 /\ pickers.polyB = 4
  /\ Len(uiGrid) = 12 /\ uiGrid[1] = POLY_BOTH /\ uiGrid[5] = POLY_A

\* C17 as stated: for all positive a, b <= 12 the polyrhythm grid has
\* exactly lcm(a,b)/a indices tagged POLY_A or POLY_BOTH and exactly
\* lcm(a,b)/b indices tagged POLY_B or POLY_BOTH.
C17_CountsLcmOverSteps ==
  (pickers.mode = "POLYRHYTHM" /\ uiGrid # <<>>) =>
    LET L == LeastCommonMultiple(pickers.polyA, pickers.polyB)
    IN /\ CountTagged(uiGrid, {POLY_A, POLY_BOTH}) = L \div pickers.polyA
       /\ CountTagged(uiGrid, {POLY_B, POLY_BOTH}) = L \div pickers.polyB

\* C17: for all positive a, b <= 12 the polyrhythm grid has exactly a
\* indices tagged POLY_A or POLY_BOTH and exactly b indices tagged POLY_B or
\* POLY_BOTH; lcm(a,b)/a and lcm(a,b)/b are the distances between them.
C17_CountsSteps ==
  (pickers.mode = "POLYRHYTHM" /\ uiGrid # <<>>) =>
    /\ CountTagged(uiGrid, {POLY_A, POLY_BOTH}) = pickers.polyA
    /\ CountTagged(uiGrid, {POLY_B, POLY_BOTH}) = pickers.polyB

C17_Witness ==
  /\ pickers.mode = "POLYRHYTHM"
  /\ pickers.polyA = 3 /\ pickers.polyB = 4
  /\ CountTagged(uiGrid, {POLY_A, POLY_BOTH}) = 3
  /\ CountTagged(uiGrid, {POLY_B, POLY_BOTH}) = 4

\* C18 as stated: in standard mode, for all BPM in [20,300] and subdivision
\* in {1,2,4}, stepInterval x gridLength equals 240/BPM seconds.
C18_BarIs240OverBpm ==
  (pickers.mode = "STANDARD" /\ uiGrid # <<>> /\ stepOut.set) =>
    stepOut.num * Len(uiGrid) * uiBpm = 240 * stepOut.den

\* C18: in standard mode, for all BPM in [20,300], beatsPerBar in 1..16 and
\* subdivision in {1,2,4}, stepInterval x gridLength equals beatsPerBar
\* beats, 60 x beatsPerBar / BPM seconds, which is 240/BPM seconds when
\* beatsPerBar is 4.
C18_BarIsNumeratorBeats ==
  (pickers.mode = "STANDARD" /\ uiGrid # <<>> /\ stepOut.set) =>
    /\ stepOut.num * Len(uiGrid) * uiBpm
         = 60 * pickers.numerator * stepOut.den
    /\ pickers.numerator = 4 =>
         stepOut.num * Len(uiGrid) * uiBpm = 240 * stepOut.den

C18_Witness ==
  /\ pickers.mode = "STANDARD"
  /\ pickers.numerator = 3 /\ pickers.subdivision = 4
  /\ uiBpm = 90
  /\ Len(uiGrid) = 12 /\ stepOut.set

\* C19: in polyrhythm mode with stepsA, stepsB in 2..12, stepInterval x
\* lcm(stepsA, stepsB) equals stepsB beats (60 x stepsB / BPM seconds), and
\* the onsets of either rhythm fall on whole grid steps: those of rhythm B
\* every lcm/stepsB steps, which is exactly one beat, those of rhythm A
\* every lcm/stepsA steps.
C19_PolyCycleIsStepsBBeats ==
  (/\ pickers.mode = "POLYRHYTHM"
   /\ pickers.polyA >= 2 /\ pickers.polyB >= 2
   /\ uiGrid # <<>> /\ stepOut.set) =>
    LET L == LeastCommonMultiple(pickers.polyA, pickers.polyB)
        perA == L \div pickers.polyA
        perB == L \div pickers.polyB
    IN /\ stepOut.num * L * uiBpm = 60 * pickers.polyB * stepOut.den
       /\ perA * pickers.polyA = L /\ perB * pickers.polyB = L
       /\ perB * stepOut.num * uiBpm = 60 * stepOut.den
       /\ \A i \in 0..(Len(uiGrid) - 1) :
            /\ uiGrid[i + 1] \in {POLY_A, POLY_BOTH} <=> i % perA = 0
            /\ uiGrid[i + 1] \in {POLY_B, POLY_BOTH} <=> i % perB = 0

C19_Witness ==
  /\ pickers.mode = "POLYRHYTHM"
  /\ pickers.polyA = 5 /\ pickers.polyB = 12
  /\ uiBpm = 100
  /\ Len(uiGrid) = 60 /\ stepOut.set

\* C12: a scheduler tick terminates having scheduled at most 100 events, and
\* when it has scheduled fewer than 100 it ends with nextNoteTime at or
\* beyond currentTime + 0.1 s: the schedule-ahead window is filled.
C12_TickBoundedAndFills ==
  /\ tickInfo.iterations <= MaxIterations
  /\ Len(tickInfo.notes) = tickInfo.iterations
  /\ (mop.op = "tick" \/ (mop.op = "start" /\ ~mop.noop)) =>
       (tickInfo.iterations < MaxIterations =>
          nextNoteTime >= currentTime + scheduleAheadTime)

\* a tick after a stall that resynchronises and fills the window in fewer
\* than 100 steps
C12_Witness ==
  /\ mop.op = "tick"
  /\ tickInfo.resynced
  /\ tickInfo.iterations > 1 /\ tickInfo.iterations < MaxIterations
  /\ nextNoteTime >= currentTime + scheduleAheadTime

\* C13: setParams and setStepInterval called while the engine is running,
\* on their own or from the component's effect (which then calls start()),
\* replace only tempo, grid and step interval: isPlaying, currentStep,
\* nextNoteTime, the pending tick timer and the step callbacks stay as they
\* are, so the bar continues from the same step.
C13_SettersKeepPosition ==
  [][ (/\ isPlaying
       /\ \/ mop'.op \in {"setParams", "setStepInterval"}
          \/ mop'.op = "paramEffect" /\ isPlaying')
      => UNCHANGED <<isPlaying, currentStep, nextNoteTime, timerID, timers,
                     callbacks, schedCount, runs>> ]_vars

\* the effect has run with a new tempo on an engine that was already
\* running and past its first step
C13_Witness ==
  /\ mop.op = "paramEffect"
  /\ isPlaying
  /\ schedCount >= 2 /\ currentStep > 0
  /\ bpm = Num(300)

\* the number of entries of sequence q whose step is v
CountStep(q, v) == Cardinality({ i \in DOMAIN q : q[i].step = v })

\* C14: every step the scheduler schedules enqueues its UI callback whatever
\* its intensity, and a click is created exactly when the intensity is not
\* MUTE: no oscillator for MUTE, one for STRONG, WEAK, POLY_A and POLY_B,
\* two for POLY_BOTH.
C14_CallbackAlwaysSoundUnlessMute ==
  [][ ((mop'.op = "tick" /\ isPlaying) \/ (mop'.op = "start" /\ ~isPlaying))
      => /\ Len(callbacks') = Len(callbacks) + Len(tickInfo'.notes)
         /\ \A i \in DOMAIN tickInfo'.notes :
              LET n == tickInfo'.notes[i]
              IN /\ CountStep(callbacks', n.step)
                      = CountStep(callbacks, n.step)
                        + CountStep(tickInfo'.notes, n.step)
                 /\ Len(n.freqs) > 0 <=> n.intensity # MUTE
                 /\ n.intensity = MUTE => Len(n.freqs) = 0
                 /\ n.intensity \in {STRONG, WEAK, POLY_A, POLY_B}
                      => Len(n.freqs) = 1
                 /\ n.intensity = POLY_BOTH => Len(n.freqs) = 2 ]_vars

\* one scheduler run has scheduled a POLY_BOTH step with two oscillators and
\* a MUTE step with none, and the callbacks of both are pending
C14_Witness ==
  /\ \E i, j \in DOMAIN tickInfo.notes :
       /\ tickInfo.notes[i].intensity = POLY_BOTH
       /\ tickInfo.notes[i].freqs = <<600, 1200>>
       /\ tickInfo.notes[j].intensity = MUTE
       /\ tickInfo.notes[j].freqs = <<>>
       /\ CountStep(callbacks, tickInfo.notes[i].step) > 0
       /\ CountStep(callbacks, tickInfo.notes[j].step) > 0
  /\ \E i \in DOMAIN tickInfo.notes : tickInfo.notes[i].intensity = POLY_B

\* C11: starting from 120, after any sequence of the -1 and +1 buttons, the
\* slider, tap tempo and speed-trainer increments, the BPM, and with it the
\* tempo the engine holds, is within [20, 300].
C11_BpmInRange == uiBpm \in MinBpm..MaxBpm /\ bpm = Num(uiBpm)

\* the trainer has raised a tempo near the top and the result is the limit
C11_Witness == uop.op = "bump" /\ uiBpm = MaxBpm

\* C20: speed trainer with barCount 4 and increment 5, play pressed at 100
\* BPM on the 4-beat default grid: the BPM stays 100 until the grid has
\* wrapped back to step 0 four times while running; at the 4th wrap the BPM
\* is 105 and the bar counter is 1, not 0.
C20_BumpAtFourthWrap ==
  (/\ uiIsPlaying /\ steady /\ startBpm = 100
   /\ trainerSettings.barCount = 4 /\ trainerSettings.increment = 5
   /\ Len(uiGrid) = 4) =>
    /\ wraps < 4 => uiBpm = 100
    /\ wraps = 4 => uiBpm = 105 /\ trainerSettings.currentBarTracker = 1

C20_Witness ==
  /\ uiIsPlaying /\ steady /\ startBpm = 100
  /\ trainerSettings.barCount = 4 /\ trainerSettings.increment = 5
  /\ wraps = 4 /\ uiBpm = 105 /\ trainerSettings.currentBarTracker = 1
  /\ uop.op = "onStep" /\ currentStepIndex = 0

\* C21: while running with the speed trainer enabled, every wrap of the grid
\* from its last step back to step 0 advances the bar counter (it is
\* incremented, or the BPM is raised and it is reset to 1 when it would
\* exceed barCount), for every grid length >= 1, a one-step grid included.
C21_EveryWrapCounts ==
  [][ (/\ uop'.op = "onStep" /\ wraps' = wraps + 1
       /\ uiIsPlaying /\ trainerSettings.enabled)
      => LET t == trainerSettings
         IN IF t.currentBarTracker + 1 > t.barCount
            THEN /\ trainerSettings'.currentBarTracker = 1
                 /\ uiBpm' = Min(MaxBpm, uiBpm + t.increment)
            ELSE /\ trainerSettings'.currentBarTracker
                      = t.currentBarTracker + 1
                 /\ uiBpm' = uiBpm ]_vars

\* C22: the speed trainer changes the bar counter or the BPM only on a
\* transition of the displayed step to 0 while the metronome is playing and
\* the trainer is enabled; otherwise the counter only changes when play
\* resets it to 0 and the tempo only when the user sets it.  The reset of
\* the step index to -1 by start, stop or a mode button counts no bar, and
\* toggling play or the trainer while step 0 is displayed counts none.
C22_CountsOnlyOnZeroTransition ==
  [][ /\ (trainerSettings'.currentBarTracker
            # trainerSettings.currentBarTracker)
         => \/ /\ uop'.op = "onStep"
               /\ currentStepIndex # 0 /\ currentStepIndex' = 0
               /\ uiIsPlaying /\ trainerSettings.enabled
            \/ /\ uop'.op = "togglePlay" /\ ~uiIsPlaying
               /\ trainerSettings'.currentBarTracker = 0
      /\ uiBpm' # uiBpm
         => \/ /\ uop'.op = "onStep"
               /\ currentStepIndex # 0 /\ currentStepIndex' = 0
               /\ uiIsPlaying /\ trainerSettings.enabled
            \/ uop'.op = "slider"
      /\ uop'.op \in {"togglePlay", "toggleTrainer", "mode"}
         => /\ uiBpm' = uiBpm
            /\ trainerSettings'.currentBarTracker
                 \in {trainerSettings.currentBarTracker, 0} ]_vars

\* the trainer has been switched while step 0 was displayed during play and
\* the bar that step began is still counted once
C22_Witness ==
  /\ uop.op = "toggleTrainer"
  /\ uiIsPlaying /\ trainerSettings.enabled
  /\ currentStepIndex = 0 /\ prevStepRef = 0
  /\ wraps = 0 /\ trainerSettings.currentBarTracker = 1

C24_AcquisitionCancellable ==
  (lastStop /\ pendingMedia = {}) =>
    /\ ~isListeningRef /\ ~isListening
    /\ frames = {}
    /\ \A i \in 1..Len(streams) : ~streams[i]

\* C25: when getUserMedia rejects, the error message is set (on the mounted
\* component), and the listening flags, the frame requests, the held source
\* and the streams are what they were: a tuner that was not listening is
\* still not listening, has no frame requested and holds no source.
C25_FailureReportedNothingRuns ==
  [][ top'.op = "failed" /\ top' # top =>
        /\ mounted => error'
        /\ UNCHANGED <<isListening, isListeningRef, rafId, sourceRef,
                       frames, streams>>
        /\ ~isListeningRef =>
             (~isListening' /\ ~isListeningRef' /\ sourceRef' = NoSource) ]_vars

\* the only request was rejected
C25_Witness ==
  /\ top.op = "failed" /\ error /\ mounted
  /\ ~isListening /\ ~isListeningRef /\ frames = {} /\ streams = <<>>
  /\ sourceRef = NoSource /\ pendingMedia = {}
\* the lags autoCorrelate evaluates on buf, and the best correlation there
LagsOf(b) == 2..(Len(b) \div 2 - 2)
MaxCorrelation(b) ==
  CHOOSE c \in { Correlation(b, k) : k \in LagsOf(b) } :
    \A k \in LagsOf(b) : Correlation(b, k) <= c

\* C26: for an all-zero buffer and for every buffer whose mean square is
\* below 0.0001 (rms below 0.01), autoCorrelate returns -1 without having
\* evaluated a lag; for every buffer, the empty and the short ones included,
\* it returns -1 or a quotient (it does not raise), and a buffer of fewer
\* than eight samples gives -1 with no lag evaluated.
C26_SilenceGate ==
  pop.op = "autoCorrelate" =>
    /\ pop.out.done
    /\ pop.out.value = NoPitch \/ pop.out.branch \in {"flat", "refined", "best"}
    /\ (SumSquares(buf) = 0 \/ SumSquares(buf) < 100 * Len(buf))
         => /\ pop.out.value = NoPitch
            /\ pop.out.lags = 0
            /\ buf # <<>> => pop.out.branch = "gate"
    /\ Len(buf) < 8 => (pop.out.value = NoPitch /\ pop.out.lags = 0)

\* a hum below the floor, long enough for lags, was gated
C26_Witness ==
  /\ pop.op = "autoCorrelate" /\ Len(buf) >= 8
  /\ SumSquares(buf) > 0 /\ SumSquares(buf) < 100 * Len(buf)
  /\ pop.out.branch = "gate" /\ pop.out.value = NoPitch

\* C27: when the buffer passes the silence gate and no lag's correlation
\* exceeds 0.9, autoCorrelate returns sampleRate / k for a lag k of highest
\* correlation if that correlation exceeds 0.01, and -1 otherwise.
C27_FallbackToBestLag ==
  (/\ pop.op = "autoCorrelate"
   /\ pop.out.branch # "gate"
   /\ LagsOf(buf) # {}
   /\ \A k \in LagsOf(buf) : ~Exceeds(Correlation(buf, k), 90, Len(buf) \div 2))
  => IF Exceeds(MaxCorrelation(buf), 1, Len(buf) \div 2)
     THEN \E k \in LagsOf(buf) :
            /\ Correlation(buf, k) = MaxCorrelation(buf)
            /\ pop.out.value = Quotient(sampleRate, k)
     ELSE pop.out.value = NoPitch
\* C28: getNoteFromFrequency returns the default result (A, octave 4, 0
\* cents, isSilent true) for NaN, both infinities, zero and every negative
\* frequency, and for every finite positive frequency a result with isSilent
\* false whose note is one of the twelve names (it does not raise).
C28_SilentExactlyOnInvalid ==
  pop.op = "getNote" =>
    IF frequency.k \in {"nan", "inf"} \/ frequency.v <= 0
    THEN /\ pop.out.note = "A" /\ pop.out.octave = 4 /\ pop.out.cents = 0
         /\ pop.out.isSilent = TRUE
    ELSE /\ pop.out.isSilent = FALSE
         /\ \E i \in 1..12 : pop.out.note = NOTE_STRINGS[i]

\* zero was looked up
C28_Witness ==
  pop.op = "getNote" /\ frequency = Num(0) /\ pop.out.isSilent

\* C29: for every MIDI pitch m in 0..127, getNoteFromFrequency of the
\* frequency 440 * 2^((m - 69) / 12) gives the note NOTE_STRINGS[m mod 12],
\* the octave floor(m / 12) - 1 and 0 cents, or -1 cents when the computed
\* note number is rounded below m.
C29_MidiRoundTrip ==
  (pop.op = "getNote" /\ pop.of # Undefined) =>
    /\ pop.out.isSilent = FALSE
    /\ pop.out.note = NOTE_STRINGS[(pop.of % 12) + 1]
    /\ pop.out.octave = (pop.of \div 12) - 1
    /\ pop.out.cents = IF pop.r < 0 THEN -1 ELSE 0

\* the frequency of MIDI pitch 0 was looked up with the note number rounded
\* below it
C29_Witness ==
  /\ pop.op = "getNote" /\ pop.of = 0 /\ pop.r < 0
  /\ pop.out.note = "C" /\ pop.out.octave = -1 /\ pop.out.cents = -1

\* C30: for every rounded MIDI number midi reached in getNoteFromFrequency,
\* the negative ones included, noteIndex is in 0..11, the note returned is
\* NOTE_STRINGS[noteIndex], and 12 * (octave + 1) + noteIndex = midi.
C30_IndexAndOctaveRebuildMidi ==
  (pop.op = "getNote" /\ ~pop.out.isSilent) =>
    /\ pop.noteIndex \in 0..11
    /\ pop.out.note = NOTE_STRINGS[pop.noteIndex + 1]
    /\ 12 * (pop.out.octave + 1) + pop.noteIndex = pop.midi

\* a frequency below that of MIDI pitch 0 was looked up
C30_Witness ==
  /\ pop.op = "getNote" /\ ~pop.out.isSilent
  /\ pop.midi = -13 /\ pop.noteIndex = 11 /\ pop.out.octave = -3
\* C34: every step the scheduler reads the grid at lies inside the grid in
\* effect when it is scheduled, and every step handed to onStep lies inside
\* the grid in effect when it is delivered, also when the grid has been
\* replaced by a shorter one between two scheduler runs.
C34_StepInsideGrid ==
  /\ \A i \in DOMAIN tickInfo.notes :
       tickInfo.notes[i].step \in 0..(tickInfo.notes[i].glen - 1)
  /\ (uop.op = "onStep" /\ isPlaying) => lastOnStep.step \in -1..(Len(grid) - 1)

\* C38: at most one re-poll timer is pending, it is the one timerID names,
\* and none is pending while the engine is stopped; a scheduler run that
\* finds the engine stopped changes nothing (it schedules no note and arms
\* no timer).
C38_OneRepollTimer ==
  /\ Cardinality(timers) <= 1
  /\ \A t \in timers : t.id = timerID
  /\ isPlaying => timers # {}
  /\ ~isPlaying => (timers = {} /\ timerID = NoTimer /\ Scheduler(Eng) = Eng)

\* a tick has re-armed the timer in the second run of the engine
C38_Witness ==
  /\ mop.op = "tick" /\ isPlaying /\ runs = 2
  /\ Cardinality(timers) = 1
\* C35: no voice's oscillator is told to stop more than once, whatever the
\* order of stop(p), re-play of p, stopAll() and safety timeouts.
C35_OscStoppedAtMostOnce ==
  \A v \in DOMAIN voices :
    /\ voices[v].oscStops <= 1
    /\ voices[v].oscStops = 1 <=> voices[v].isStopped

\* a safety timeout fired for a voice that had already been stopped
C35_Witness ==
  /\ sop.op = "timeout" /\ ~sop.stopped
  /\ voices[sop.noteObj].isStopped /\ voices[sop.noteObj].oscStops = 1

\* C36: a safety timeout that fires changes a voice only if that voice is
\* the one it was armed for and is still the active voice of its pitch; when
\* the pitch has a newer voice by then, the voices and the map are left
\* alone.
C36_TimeoutStopsOwnVoiceOnly ==
  [][ sop'.op = "timeout" /\ sop' # sop =>
        /\ \A v \in DOMAIN voices :
             voices'[v] # voices[v] =>
               (v = sop'.noteObj /\ activeNotes[sop'.midi] = v)
        /\ activeNotes[sop'.midi] # sop'.noteObj
             => UNCHANGED <<voices, activeNotes>> ]_vars

\* the timeout of a replaced voice fired while the newer voice of the pitch
\* sounds and has its own timeout pending
C36_Witness ==
  /\ sop.op = "timeout" /\ ~sop.stopped
  /\ activeNotes[sop.midi] \notin {NoVoice, sop.noteObj}
  /\ ~voices[activeNotes[sop.midi]].isStopped
  /\ [midi |-> sop.midi, noteObj |-> activeNotes[sop.midi]] \in safetyTimers
\* lag k of buf is above 0.9 and above the lag before it
GoodAndRising(b, k) ==
  /\ Exceeds(Correlation(b, k), 90, Len(b) \div 2)
  /\ k > 2 /\ Correlation(b, k) > Correlation(b, k - 1)

\* C37: when autoCorrelate returns from the refinement branch, taken at lag
\* k (the last lag evaluated), the best lag is k - 1 and at least 3, lag
\* k - 1 was above 0.9 and rising and lag k is not, and the correlations at
\* best - 1, best and best + 1 were all stored during the call; the value is
\* the unrefined sampleRate / best exactly when the denominator is below
\* 0.0001 in magnitude, and the interpolated one otherwise.
C37_RefinementReadsComputedLags ==
  (pop.op = "autoCorrelate" /\ pop.out.branch \in {"flat", "refined"}) =>
    LET best == pop.out.bestOffset
        k == pop.out.lags + 1
        M == Len(buf) \div 2
        denom == 2 * Correlation(buf, best) - Correlation(buf, best + 1)
                   - Correlation(buf, best - 1)
    IN /\ best = k - 1 /\ best >= 3
       /\ GoodAndRising(buf, best) /\ ~GoodAndRising(buf, k)
       /\ {best - 1, best, best + 1} \subseteq DOMAIN pop.out.correlations
       /\ \A i \in {best - 1, best, best + 1} :
            pop.out.correlations[i] = Correlation(buf, i)
       /\ IF 10 * Abs(denom) < M
          THEN /\ pop.out.branch = "flat"
               /\ pop.out.value = Quotient(sampleRate, best)
          ELSE /\ pop.out.branch = "refined"
               /\ pop.out.value =
                    Shifted(sampleRate, best,
                            Correlation(buf, best + 1)
                              - Correlation(buf, best - 1), 2 * denom)

\* the refinement branch returned the unrefined quotient
C37_Witness ==
  /\ pop.op = "autoCorrelate" /\ pop.out.branch = "flat"
  /\ pop.out.bestOffset >= 3
  /\ pop.out.value = Quotient(sampleRate, pop.out.bestOffset)
\* C32: after cycleIntensity(i) in standard mode the grid has the length it
\* had, every cell but i is what it was and cell i went MUTE -> WEAK ->
\* STRONG -> MUTE, three applications giving back the grid it started from;
\* in polyrhythm mode the grid is what it was.
C32_CycleChangesOneCell ==
  uop.op = "cycle" =>
    LET i == uop.index + 1
        g == uop.before
        once == cycleIntensity(g, uop.mode, uop.index)
        twice == cycleIntensity(once, uop.mode, uop.index)
    IN IF uop.mode = "STANDARD"
       THEN /\ Len(uiGrid) = Len(g)
            /\ \A j \in 1..Len(g) : j # i => uiGrid[j] = g[j]
            /\ g[i] = MUTE => uiGrid[i] = WEAK
            /\ g[i] = WEAK => uiGrid[i] = STRONG
            /\ g[i] = STRONG => uiGrid[i] = MUTE
            /\ g[i] \in {MUTE, WEAK, STRONG}
            /\ cycleIntensity(twice, uop.mode, uop.index) = g
            /\ grid = uiGrid
       ELSE uiGrid = g /\ grid = g

\* a STRONG cell other than the first was cycled to MUTE
C32_Witness ==
  /\ uop.op = "cycle" /\ uop.mode = "STANDARD" /\ uop.index > 0
  /\ uop.before[uop.index + 1] = STRONG /\ uiGrid[uop.index + 1] = MUTE
\* C31: the durations of the user's cells never sum to more than one bar,
\* whatever was added and removed; an addCell whose cell would take the
\* total past the bar leaves the cells as they were, any other appends the
\* cell; a removal takes one cell out and leaves the others in their order.
C31_CellsWithinOneBar ==
  /\ [](CellsTotal(userCells) <= SixteenthsPerBar)
  /\ [][ /\ AddCell =>
              IF CellsTotal(userCells) + CellValue(rop'.cell)
                   > SixteenthsPerBar
              THEN userCells' = userCells
              ELSE userCells' = Append(userCells, rop'.cell)
         /\ (RemoveLastCell \/ RemoveCell) =>
              /\ Len(userCells') = Len(userCells) - 1
              /\ CellsTotal(userCells') < CellsTotal(userCells)
              /\ \E i \in 1..Len(userCells) :
                   userCells' = removeCellAt(userCells, i - 1) ]_vars

\* a sixteenth was refused on a full bar put together from three kinds of
\* cell
C31_Witness ==
  /\ rop.op = "add" /\ rop.cell = "s" /\ rop.refused
  /\ CellsTotal(userCells) = SixteenthsPerBar
  /\ Cardinality({userCells[i] : i \in DOMAIN userCells}) >= 3
\* the voices that still sound
Sounding == { v \in DOMAIN voices : ~voices[v].isStopped }

\* C33: when a chord-tagged key is released through stopInternal with chord
\* assist on, and the chord flag and transpose are what they were at the
\* press, every voice the press started is stopped afterwards, for a major,
\* a minor and a diminished key alike; the only voices and map entries the
\* release changes are those of voices that sounded at root + 0, 3, 4, 6, 7,
\* so a stop aimed at a pitch without a voice changes nothing.
C33_ReleaseStopsTheChord ==
  [][ (kop'.op = "release" /\ kop'.called /\ kop'.chordType # NoChord
         /\ isSmartChord /\ presses[kop'.key].down
         /\ presses[kop'.key].steady) =>
        LET root == getMidiNote(kop'.offset, transpose)
            targets == { root + i : i \in {0, 3, 4, 6, 7} }
        IN /\ \A v \in presses[kop'.key].voices : voices'[v].isStopped
           /\ \A m \in KeyMidis :
                (m \notin targets \/ activeNotes[m] = NoVoice)
                  => activeNotes'[m] = activeNotes[m]
           /\ \A v \in DOMAIN voices :
                voices'[v] # voices[v]
                  => \E m \in targets : activeNotes[m] = v
           /\ Len(voices') = Len(voices)
           /\ safetyTimers' = safetyTimers ]_vars

\* the release of the minor key, transposed, stopped the three voices its
\* press started
C33_Witness ==
  /\ kop.op = "release" /\ kop.called /\ kop.chordType = "m"
  /\ isSmartChord /\ kop.steady /\ transpose = 1
  /\ Cardinality(presses[kop.key].voices) = 3
  /\ \A v \in presses[kop.key].voices :
       voices[v].isStopped /\ voices[v].fade = "release"

\* C39: a voice started by the press of a key, with the latch off from the
\* press to the release, is stopped at some time after the key's release.
C39_ReleasedVoicesStop ==
  \A k \in KeyNames : \A v \in 1..(3 * MaxPresses) :
    (presses[k].released /\ presses[k].latchOff /\ v \in presses[k].voices)
      ~> (v \notin Sounding)
\* C40: after generateQuizQuestion the root in the chord name is the label
\* the keyboard shows on the key of the lowest expected note, and every
\* expected note is the pitch of one of the 29 keys.
C40_QuizRootIsLabelled ==
  kop.op = "question" =>
    /\ correctChordNotes[1] = getMidiNote(kop.rootOffset, transpose)
    /\ \A i \in DOMAIN correctChordNotes :
         /\ correctChordNotes[1] <= correctChordNotes[i]
         /\ \E offset \in 0..MAX_KEY_OFFSET :
              correctChordNotes[i] = getMidiNote(offset, transpose)
    /\ currentChordName.root = getNoteLabel(kop.rootOffset, transpose)
====
